---------------------------- MODULE Spec2Model ----------------------------
(***************************************************************************)
(* Model of the resource acquisition and CSV reshaping pipeline of the     *)
(* Melodi catalog connector: the filter normalizer (buildImportParams,     *)
(* serializeParams), the streaming downloader (downloadFileWithProgress),  *)
(* the CSV filter-extractor (extractCsvWithFilters), the volume estimator  *)
(* (countPagging) with the fetch-path choice of getResource, and the pivot *)
(* transformer (pivotCsv).                                                 *)
(*                                                                         *)
(* Text is modelled as a sequence of one-symbol strings, so that cleaning, *)
(* encoding, parsing and formatting are computed symbol by symbol.         *)
(* A JavaScript object (Record<string, T>) is a sequence of [k, v] entries *)
(* in insertion order, the order Object.entries and for-in enumerate.      *)
(***************************************************************************)
EXTENDS Integers, Sequences, FiniteSets, TLC

(***************************************************************************)
(* Bounds of the model.                                                    *)
(***************************************************************************)
MaxFilters == 2
MaxVals == 2
MaxEntries == 2

(***************************************************************************)
(* State.  Each component has its own variables; a specification runs one  *)
(* component and leaves the others idle.                                   *)
(***************************************************************************)
VARIABLES
    \* buildImportParams: position, argument, result
    bp_pc, bp_filters, bp_params,
    \* serializeParams: position, argument, result
    sp_pc, sp_params, sp_query,
    \* getResource
    gr_pc, gr_config, gr_countResponse, gr_totalCount, gr_paths,
    gr_fetchFilters, gr_filePath, gr_result, gr_error, gr_files, gr_deleted,
    gr_failure,
    \* downloadFileWithProgress
    dl_pc,              \* position of the async function
    dl_writer,          \* the fs.WriteStream on destPath
    dl_file,            \* what is at destPath on disk
    dl_response,        \* the response stream
    dl_received,        \* bytes of the body emitted by the response stream
    dl_downloadedBytes, \* the local counter of the data handler
    dl_lastLogged,      \* time of the last throttled report
    dl_now,             \* Date.now(), in ms since the call
    dl_reports,         \* log.progress calls, in order
    dl_listening,       \* 'finish' and 'error' handlers are attached
    dl_unlinkPending,   \* an fs.unlink has been queued and has not run yet
    dl_inner,           \* the promise built at line 58
    dl_caught,          \* the error the catch block holds
    dl_finishing,       \* the 'finish' handler awaits log.progress
    dl_result,          \* the promise returned to the caller
    dl_error,           \* what that promise rejected with
    dl_failures,        \* the failures the environment has raised
    dl_uncaught,        \* an 'error' event found no handler
    \* extractCsvWithFilters
    ex_pc,              \* position of the async function
    ex_filters,         \* the filters argument
    ex_entries,         \* sizes of the entries of the archive, in order
    ex_largestEntry,    \* index of the entry that is streamed
    ex_filterSets,      \* filterSets
    ex_filterIndices,   \* filterIndices
    ex_numericIndices,  \* numericIndices
    ex_isHeader,        \* isHeader
    ex_lines,           \* the lines read from the entry so far
    ex_output,          \* the lines written to the output file
    ex_outputExists,    \* the output file has been created
    ex_zipOpen,         \* the archive handle is open
    ex_zipExists,       \* the file at zipFilePath exists
    ex_result,          \* the promise returned to the caller
    ex_error,           \* what that promise rejected with
    \* pivotCsv
    pv_pc,              \* position of the async function
    pv_pivotConcepts,   \* options.pivotConcepts
    pv_rangeTable,      \* options.rangeTable
    pv_labelsMap,       \* labelsMap
    pv_lines,           \* the lines read from the source so far
    pv_sourceHeaders,   \* sourceHeaders
    pv_colIndices,      \* colIndices
    pv_buffer,          \* buffer
    pv_dynamicHeadersMap, \* dynamicHeadersMap
    pv_output,          \* the lines written to the output file
    pv_outputExists,    \* the output file has been created
    pv_sourceExists,    \* the file at sourceCsvPath exists
    pv_schema,          \* the schema returned
    pv_result,          \* the promise returned to the caller
    pv_error,           \* what that promise rejected with
    \* the choice of the archive entry: position, entry sizes in enumeration
    \* order, the function that ran, the index chosen (0: none), the error
    se_pc, se_entries, se_function, se_selected, se_error

bpVars == <<bp_pc, bp_filters, bp_params>>

spVars == <<sp_pc, sp_params, sp_query>>

grVars == <<gr_pc, gr_config, gr_countResponse, gr_totalCount, gr_paths,
            gr_fetchFilters, gr_filePath, gr_result, gr_error, gr_files,
            gr_deleted, gr_failure>>

dlVars == <<dl_pc, dl_writer, dl_file, dl_response, dl_received,
            dl_downloadedBytes, dl_lastLogged, dl_now, dl_reports,
            dl_listening, dl_unlinkPending, dl_inner, dl_caught,
            dl_finishing, dl_result, dl_error, dl_failures, dl_uncaught>>

exVars == <<ex_pc, ex_filters, ex_entries, ex_largestEntry, ex_filterSets,
            ex_filterIndices, ex_numericIndices, ex_isHeader, ex_lines,
            ex_output, ex_outputExists, ex_zipOpen, ex_zipExists, ex_result,
            ex_error>>

pvVars == <<pv_pc, pv_pivotConcepts, pv_rangeTable, pv_labelsMap, pv_lines,
            pv_sourceHeaders, pv_colIndices, pv_buffer, pv_dynamicHeadersMap,
            pv_output, pv_outputExists, pv_sourceExists, pv_schema, pv_result,
            pv_error>>

seVars == <<se_pc, se_entries, se_function, se_selected, se_error>>

vars == <<bpVars, spVars, grVars, dlVars, exVars, pvVars, seVars>>

\* the variables of the other components
notBp == <<spVars, grVars, dlVars, exVars, pvVars, seVars>>

notSp == <<bpVars, grVars, dlVars, exVars, pvVars, seVars>>

notGr == <<bpVars, spVars, dlVars, exVars, pvVars, seVars>>

notDl == <<bpVars, spVars, grVars, exVars, pvVars, seVars>>

notEx == <<bpVars, spVars, grVars, dlVars, pvVars, seVars>>

notPv == <<bpVars, spVars, grVars, dlVars, exVars, seVars>>

notSe == <<bpVars, spVars, grVars, dlVars, exVars, pvVars>>

(***************************************************************************)
(* Names of the source, spelled symbol by symbol.                          *)
(***************************************************************************)
GEO == <<"G", "E", "O">>
GEO_OBJECT == <<"G", "E", "O", "_", "O", "B", "J", "E", "C", "T">>
TIME_PERIOD == <<"T", "I", "M", "E", "_", "P", "E", "R", "I", "O", "D">>
OBS_VALUE == <<"O", "B", "S", "_", "V", "A", "L", "U", "E">>
SEXE == <<"S", "E", "X", "E">>
AGE == <<"A", "G", "E">>

(***************************************************************************)
(* Generic helpers on sequences.                                           *)
(***************************************************************************)
Range(s) == {s[i] : i \in 1..Len(s)}

SeqsUpTo(S, n) == UNION {[1..m -> S] : m \in 0..n}

NoDuplicates(s) == \A i, j \in 1..Len(s) : i # j => s[i] # s[j]

RECURSIVE Flatten(_)
Flatten(ss) == IF ss = <<>> THEN <<>> ELSE Head(ss) \o Flatten(Tail(ss))

RECURSIVE JoinWith(_, _)
JoinWith(ss, sep) ==
    IF ss = <<>> THEN <<>>
    ELSE IF Len(ss) = 1 THEN Head(ss)
    ELSE Head(ss) \o sep \o JoinWith(Tail(ss), sep)

\* String.prototype.split on a one-symbol separator
RECURSIVE SplitOn(_, _)
SplitOn(s, sep) ==
    IF \A i \in 1..Len(s) : s[i] # sep THEN <<s>>
    ELSE LET p == CHOOSE i \in 1..Len(s) :
                    s[i] = sep /\ \A j \in 1..(i - 1) : s[j] # sep
         IN  <<SubSeq(s, 1, p - 1)>> \o SplitOn(SubSeq(s, p + 1, Len(s)), sep)

(***************************************************************************)
(* JavaScript objects as insertion-ordered entry lists.                    *)
(***************************************************************************)
HasKey(obj, key) == \E i \in 1..Len(obj) : obj[i].k = key

GetKey(obj, key) == obj[CHOOSE i \in 1..Len(obj) : obj[i].k = key].v

SetKey(obj, key, val) ==
    IF HasKey(obj, key)
    THEN [i \in 1..Len(obj) |->
            IF obj[i].k = key THEN [k |-> key, v |-> val] ELSE obj[i]]
    ELSE Append(obj, [k |-> key, v |-> val])

Keys(obj) == {obj[i].k : i \in 1..Len(obj)}

(***************************************************************************)
(* [...new Set(seq)]: the first occurrence of each element, in order.      *)
(***************************************************************************)
RECURSIVE SetSpread(_)
SetSpread(s) ==
    IF s = <<>> THEN <<>>
    ELSE LET init == SetSpread(SubSeq(s, 1, Len(s) - 1))
             last == s[Len(s)]
         IN  IF last \in Range(init) THEN init ELSE Append(init, last)

(***************************************************************************)
(* buildImportParams (src/lib/utils/common.ts).  filters is               *)
(* [defined, items]: defined is FALSE for a missing or non-array argument. *)
(* The empty concept <<>> is the falsy selectedConcept.                    *)
(***************************************************************************)
MergeFilter(params, filter) ==
    LET code == filter.selectedConcept
        values == filter.selectedValues
    IN  IF code = <<>> \/ Len(values) = 0 THEN params
        ELSE IF HasKey(params, code)
             THEN SetKey(params, code, SetSpread(GetKey(params, code) \o values))
             ELSE SetKey(params, code, values)

RECURSIVE MergeFilters(_, _)
MergeFilters(params, items) ==
    IF items = <<>> THEN params
    ELSE MergeFilters(MergeFilter(params, Head(items)), Tail(items))

buildImportParams(filters) ==
    IF ~filters.defined THEN <<>> ELSE MergeFilters(<<>>, filters.items)

(***************************************************************************)
(* JavaScript values handed to serializeParams.                            *)
(***************************************************************************)
JsNull == [t |-> "null"]
JsUndefined == [t |-> "undefined"]
JsStr(s) == [t |-> "str", s |-> s]
JsNum(n) == [t |-> "num", n |-> n]
JsBool(b) == [t |-> "bool", b |-> b]
JsArr(items) == [t |-> "arr", items |-> items]

DigitSym == <<"0", "1", "2", "3", "4", "5", "6", "7", "8", "9">>

RECURSIVE NatToString(_)
NatToString(n) ==
    IF n < 10 THEN <<DigitSym[n + 1]>>
    ELSE NatToString(n \div 10) \o <<DigitSym[(n % 10) + 1]>>

\* String(value)
RECURSIVE String(_)
String(val) ==
    CASE val.t = "null" -> <<"n", "u", "l", "l">>
      [] val.t = "undefined" ->
            <<"u", "n", "d", "e", "f", "i", "n", "e", "d">>
      [] val.t = "str" -> val.s
      [] val.t = "num" -> NatToString(val.n)
      [] val.t = "bool" -> IF val.b THEN <<"t", "r", "u", "e">>
                           ELSE <<"f", "a", "l", "s", "e">>
      [] val.t = "arr" ->
            JoinWith([i \in 1..Len(val.items) |->
                        IF val.items[i].t \in {"null", "undefined"} THEN <<>>
                        ELSE String(val.items[i])], <<",">>)

(***************************************************************************)
(* encodeURIComponent: the reserved symbols of the model are               *)
(* percent-encoded, every other symbol is unreserved and kept.             *)
(***************************************************************************)
PercentCode(c) ==
    CASE c = "&" -> <<"%", "2", "6">>
      [] c = "=" -> <<"%", "3", "D">>
      [] c = "[" -> <<"%", "5", "B">>
      [] c = "]" -> <<"%", "5", "D">>
      [] c = " " -> <<"%", "2", "0">>
      [] c = "%" -> <<"%", "2", "5">>
      [] c = "," -> <<"%", "2", "C">>
      [] c = ";" -> <<"%", "3", "B">>
      [] OTHER -> <<c>>

encodeURIComponent(s) == Flatten([i \in 1..Len(s) |-> PercentCode(s[i])])

(***************************************************************************)
(* serializeParams (src/lib/utils/common.ts).                              *)
(***************************************************************************)
ParamStringsOfBracketed(entry) ==
    IF entry.v.t \in {"null", "undefined"} THEN <<>>
    ELSE IF entry.v.t = "arr"
    THEN [i \in 1..Len(entry.v.items) |->
            encodeURIComponent(entry.k \o <<"[">> \o NatToString(i - 1) \o <<"]">>)
                \o <<"=">> \o encodeURIComponent(String(entry.v.items[i]))]
    ELSE <<encodeURIComponent(entry.k) \o <<"=">>
              \o encodeURIComponent(String(entry.v))>>

ParamStringsOf(entry) ==
    IF entry.v.t \in {"null", "undefined"} THEN <<>>
    ELSE IF entry.v.t = "arr"
    THEN [i \in 1..Len(entry.v.items) |->
            encodeURIComponent(entry.k) \o <<"=">>
                \o encodeURIComponent(String(entry.v.items[i]))]
    ELSE <<encodeURIComponent(entry.k) \o <<"=">>
              \o encodeURIComponent(String(entry.v))>>

serializeParams(params) ==
    JoinWith(Flatten([i \in 1..Len(params) |-> ParamStringsOf(params[i])]),
             <<"&">>)

(***************************************************************************)
(* The filter normalizer applied to bounded inputs.                        *)
(***************************************************************************)
FilterConcepts == {<<>>, GEO, SEXE}

FilterCodes == {<<"F">>, <<"M">>}

FilterConfigs ==
    [selectedConcept : FilterConcepts,
     selectedValues : SeqsUpTo(FilterCodes, MaxVals)]

FiltersInputs ==
    {[defined |-> FALSE, items |-> <<>>]}
        \cup {[defined |-> TRUE, items |-> fs] :
                fs \in SeqsUpTo(FilterConfigs, MaxFilters)}

BpIdle == bp_pc = "off" /\ bp_filters = [defined |-> FALSE, items |-> <<>>]
            /\ bp_params = <<>>

BpInit == bp_pc = "call" /\ bp_filters \in FiltersInputs /\ bp_params = <<>>

BuildImportParams ==
    /\ bp_pc = "call"
    /\ bp_params' = buildImportParams(bp_filters)
    /\ bp_pc' = "done"
    /\ UNCHANGED bp_filters
    /\ UNCHANGED notBp

(***************************************************************************)
(* The query-string serializer applied to bounded inputs.                  *)
(***************************************************************************)
ParamKeys == {<<"c">>, <<"m">>, <<"k", "&">>}

ParamScalars ==
    {JsStr(<<"A">>), JsStr(<<"A", "&", "B">>), JsStr(<<"=">>), JsStr(<<>>),
     JsNum(0), JsNum(1000000), JsBool(TRUE)}

ParamValues ==
    ParamScalars
        \cup {JsNull, JsUndefined}
        \cup {JsArr(<<>>), JsArr(<<JsStr(<<"A">>)>>),
              JsArr(<<JsStr(<<"A">>), JsStr(<<"B">>)>>),
              JsArr(<<JsStr(<<"A">>), JsStr(<<"A">>)>>),
              JsArr(<<JsStr(<<"A", "&", "B">>), JsStr(<<"[", "]">>)>>),
              JsArr(<<JsNum(12), JsNull, JsStr(<<"B">>)>>)}

ParamsInputs ==
    {ps \in SeqsUpTo([k : ParamKeys, v : ParamValues], MaxEntries) :
        \A i, j \in 1..Len(ps) : i # j => ps[i].k # ps[j].k}

SpIdle == sp_pc = "off" /\ sp_params = <<>> /\ sp_query = <<>>

SpInit == sp_pc = "call" /\ sp_params \in ParamsInputs /\ sp_query = <<>>

SerializeParams ==
    /\ sp_pc = "call"
    /\ sp_query' = serializeParams(sp_params)
    /\ sp_pc' = "done"
    /\ UNCHANGED sp_params
    /\ UNCHANGED notSp

(***************************************************************************)
(* Reading a query string back: split at a separator symbol, and           *)
(* decodeURIComponent.                                                     *)
(***************************************************************************)
PercentSymbols == {"&", "=", "[", "]", " ", "%", ",", ";"}

RECURSIVE decodeURIComponent(_)
decodeURIComponent(s) ==
    IF s = <<>> THEN <<>>
    ELSE IF s[1] = "%" /\ Len(s) >= 3
              /\ \E c \in PercentSymbols : PercentCode(c) = SubSeq(s, 1, 3)
    THEN <<CHOOSE c \in PercentSymbols : PercentCode(c) = SubSeq(s, 1, 3)>>
            \o decodeURIComponent(SubSeq(s, 4, Len(s)))
    ELSE <<s[1]>> \o decodeURIComponent(Tail(s))

QueryPairs(query) == IF query = <<>> THEN <<>> ELSE SplitOn(query, "&")

(***************************************************************************)
(* C8.  buildImportParams returns, for each concept, exactly the union of  *)
(* the values given for that concept in the input, with no value twice     *)
(* (also when the concept occurs once), and no key absent from the input.  *)
(***************************************************************************)
ValuesGivenFor(concept) ==
    UNION {Range(bp_filters.items[i].selectedValues) :
            i \in {j \in 1..Len(bp_filters.items) :
                     bp_filters.items[j].selectedConcept = concept}}

C8_MergedValuesAreDuplicateFreeUnion ==
    bp_pc = "done" =>
        /\ \A i \in 1..Len(bp_params) :
              /\ Range(bp_params[i].v) = ValuesGivenFor(bp_params[i].k)
              /\ NoDuplicates(bp_params[i].v)
              /\ \E j \in 1..Len(bp_filters.items) :
                    bp_filters.items[j].selectedConcept = bp_params[i].k
        /\ \A j \in 1..Len(bp_filters.items) :
              (/\ bp_filters.items[j].selectedConcept # <<>>
               /\ bp_filters.items[j].selectedValues # <<>>)
                  => HasKey(bp_params, bp_filters.items[j].selectedConcept)

(***************************************************************************)
(* C9.  The query string of serializeParams holds one key=value pair per   *)
(* element of an array-valued parameter, under the parameter's own key     *)
(* (never bracket-indexed), one pair per scalar parameter and nothing for  *)
(* a null or undefined parameter.                                          *)
(***************************************************************************)
PairsDueFor(entry) ==
    CASE entry.v.t \in {"null", "undefined"} -> <<>>
      [] entry.v.t = "arr" ->
            [i \in 1..Len(entry.v.items) |-> <<entry.k, String(entry.v.items[i])>>]
      [] OTHER -> <<<<entry.k, String(entry.v)>>>>

PairsDue(params) == Flatten([i \in 1..Len(params) |-> PairsDueFor(params[i])])

C9_RepeatedKeyPairs ==
    sp_pc = "done" =>
        LET pairs == QueryPairs(sp_query)
            due == PairsDue(sp_params)
        IN  /\ Len(pairs) = Len(due)
            /\ \A i \in 1..Len(pairs) :
                  LET kv == SplitOn(pairs[i], "=")
                  IN  /\ Len(kv) = 2
                      /\ decodeURIComponent(kv[1]) = due[i][1]
                      /\ decodeURIComponent(kv[2]) = due[i][2]
            /\ \A i \in 1..Len(sp_query) : sp_query[i] \notin {"[", "]"}

C9_Witness ==
    /\ sp_pc = "done"
    /\ \E i, j \in 1..Len(sp_params) :
          /\ sp_params[i].v.t = "arr"
          /\ Len(sp_params[i].v.items) >= 2
          /\ sp_params[j].v.t \in {"null", "undefined"}
    /\ Len(QueryPairs(sp_query)) >= 2

(***************************************************************************)
(* getResource (src/lib/utils/csv.ts, lines 583-687) with the volume       *)
(* estimator countPagging.  The remote requests are the environment: each  *)
(* one succeeds or fails.                                                  *)
(***************************************************************************)
\* the literal of the fetch-path test
Threshold == 100000

NAT == <<"N", "A", "T">>
REG == <<"R", "E", "G">>

\* importConfig: geoLevel <<>> is an unset geoLevel
ImportConfigs ==
    [filters : {<<>>, <<[selectedConcept |-> SEXE, selectedValues |-> <<<<"F">>>>]>>},
     geoLevel : {<<>>, NAT, REG},
     pivotConcepts : {<<>>, <<SEXE>>}]

\* what the count request can answer: a failure, a body without paging.count,
\* or a reported count
CountValues == {0, 1, Threshold - 1, Threshold, Threshold + 1}

CountResponses ==
    {[status |-> "error", hasCount |-> FALSE, count |-> 0],
     [status |-> "ok", hasCount |-> FALSE, count |-> 0]}
        \cup {[status |-> "ok", hasCount |-> TRUE, count |-> c] : c \in CountValues}

NoResponse == [status |-> "none", hasCount |-> FALSE, count |-> 0]

countPaggingOneOnFailure(response) ==
    IF response.status = "ok" /\ response.hasCount THEN response.count ELSE 1

\* lines 500-523: totalItems || 0, and 0 from the catch block
countPagging(response) ==
    IF response.status = "ok"
    THEN IF response.hasCount /\ response.count # 0 THEN response.count ELSE 0
    ELSE 0

\* line 598
IsLightDataset(totalCount) == totalCount > 0 /\ totalCount <= Threshold

\* lines 589-596
ActiveFilters(config) ==
    IF config.geoLevel # <<>>
    THEN Append(config.filters,
                [selectedConcept |-> GEO, selectedValues |-> <<config.geoLevel>>])
    ELSE config.filters

\* lines 611-617
ZipFilters(config) ==
    IF config.geoLevel # <<>> /\ config.geoLevel # NAT
    THEN Append(config.filters,
                [selectedConcept |-> GEO_OBJECT, selectedValues |-> <<config.geoLevel>>])
    ELSE config.filters

\* line 533: the file the archive is downloaded to
zipPath == "resourceId.zip"

\* lines 556 and 45-46: the flat CSV, downloaded or extracted
csvPath == "resourceId.csv"

\* lines 157-158: the file pivotCsv writes
exportPath == "resourceId_export.csv"

\* the messages of the errors that csv.ts builds itself
DomainMessages ==
    {"Error fetching Melodi dataset metadata",
     "no associated file",
     "Failed to download Melodi dataset (ZIP)",
     "Failed to download Melodi dataset (API CSV)",
     "Error fetching Melodi dataset metadata or range information",
     "Missing required columns"}

\* a finally block that removes the output as well
pivotFinallyRemovingOutput(files, sourceCsvPath) ==
    files \ {sourceCsvPath, exportPath}

\* lines 348-353
pivotFinally(files, sourceCsvPath) == files \ {sourceCsvPath}

\* lines 124-127
extractFinally(files, zipFilePath) == files \ {zipFilePath}

GrFresh ==
    /\ gr_countResponse = NoResponse
    /\ gr_totalCount = 0
    /\ gr_paths = <<>>
    /\ gr_fetchFilters = <<>>
    /\ gr_filePath = "none"
    /\ gr_result = "pending"
    /\ gr_error = "none"
    /\ gr_files = {}
    /\ gr_deleted = {}
    /\ gr_failure = "none"

GrIdle ==
    /\ gr_pc = "off"
    /\ gr_config = [filters |-> <<>>, geoLevel |-> <<>>, pivotConcepts |-> <<>>]
    /\ GrFresh

GrInit ==
    /\ gr_pc = "getMetaData"
    /\ gr_config \in ImportConfigs
    /\ GrFresh

GrReject(error, failure) ==
    /\ gr_pc' = "done"
    /\ gr_result' = "rejected"
    /\ gr_error' = error
    /\ gr_failure' = failure

\* lines 461-494 and 585-588
GetMetaData ==
    /\ gr_pc = "getMetaData"
    /\ \/ GrReject("Error fetching Melodi dataset metadata", "metadata request")
       \/ GrReject("no associated file", "no origin")
       \/ gr_pc' = "countPagging" /\ UNCHANGED <<gr_result, gr_error, gr_failure>>
    /\ UNCHANGED <<gr_config, gr_countResponse, gr_totalCount, gr_paths,
                   gr_fetchFilters, gr_filePath, gr_files, gr_deleted>>
    /\ UNCHANGED notGr

\* line 597: the count request answers and countPagging returns
CountPagging ==
    /\ gr_pc = "countPagging"
    /\ \E response \in CountResponses :
          /\ gr_countResponse' = response
          /\ gr_totalCount' = countPagging(response)
    /\ gr_pc' = "selectPath"
    /\ UNCHANGED <<gr_config, gr_paths, gr_fetchFilters, gr_filePath,
                   gr_result, gr_error, gr_files, gr_deleted, gr_failure>>
    /\ UNCHANGED notGr

\* lines 598-623: the fetch path is entered
SelectFetchPath ==
    /\ gr_pc = "selectPath"
    /\ IF IsLightDataset(gr_totalCount)
       THEN /\ gr_paths' = Append(gr_paths, "csv")
            /\ gr_fetchFilters' = ActiveFilters(gr_config)
            /\ gr_pc' = "downloadResourceCsv"
       ELSE /\ gr_paths' = Append(gr_paths, "zip")
            /\ gr_fetchFilters' = ZipFilters(gr_config)
            /\ gr_pc' = "downloadResourceZip"
    /\ UNCHANGED <<gr_config, gr_countResponse, gr_totalCount, gr_filePath,
                   gr_result, gr_error, gr_files, gr_deleted, gr_failure>>
    /\ UNCHANGED notGr

\* lines 555-576: the promise of downloadFileWithProgress is returned without
\* being awaited inside the try block, so its rejection passes the catch block
\* and reaches the caller as it is.  A rejected download may have left its
\* file behind (download.ts, lines 22 and 79-86).
DownloadResourceCsv ==
    /\ gr_pc = "downloadResourceCsv"
    /\ \/ /\ GrReject("transport error", "download request")
          /\ gr_files' \in {gr_files, gr_files \cup {csvPath}}
          /\ UNCHANGED gr_filePath
       \/ /\ gr_files' = gr_files \cup {csvPath}
          /\ gr_filePath' = csvPath
          /\ gr_pc' = "range"
          /\ UNCHANGED <<gr_result, gr_error, gr_failure>>
    /\ UNCHANGED <<gr_config, gr_countResponse, gr_totalCount, gr_paths,
                   gr_fetchFilters, gr_deleted>>
    /\ UNCHANGED notGr

\* lines 532-547: the download, then extractCsvWithFilters, whose finally
\* block removes the archive and whose output file exists from line 47 on
DownloadResourceZip ==
    /\ gr_pc = "downloadResourceZip"
    /\ \/ /\ GrReject("Failed to download Melodi dataset (ZIP)",
                      "download request")
          /\ gr_files' \in {gr_files, gr_files \cup {zipPath}}
          /\ UNCHANGED <<gr_filePath, gr_deleted>>
       \/ \E outputCreated \in BOOLEAN :
             LET downloaded == gr_files \cup {zipPath}
                 extracted == IF outputCreated THEN downloaded \cup {csvPath}
                              ELSE downloaded
             IN  /\ GrReject("Failed to download Melodi dataset (ZIP)",
                             "extraction")
                 /\ gr_files' = extractFinally(extracted, zipPath)
                 /\ gr_deleted' = gr_deleted
                        \cup (extracted \ extractFinally(extracted, zipPath))
                 /\ UNCHANGED gr_filePath
       \/ LET extracted == gr_files \cup {zipPath, csvPath}
          IN  /\ gr_files' = extractFinally(extracted, zipPath)
              /\ gr_deleted' = gr_deleted
                     \cup (extracted \ extractFinally(extracted, zipPath))
              /\ gr_filePath' = csvPath
              /\ gr_pc' = "range"
              /\ UNCHANGED <<gr_result, gr_error, gr_failure>>
    /\ UNCHANGED <<gr_config, gr_countResponse, gr_totalCount, gr_paths,
                   gr_fetchFilters>>
    /\ UNCHANGED notGr

\* lines 624-629
RangeRequest ==
    /\ gr_pc = "range"
    /\ \/ GrReject("Error fetching Melodi dataset metadata or range information",
                   "range request")
       \/ /\ gr_pc' = IF gr_config.pivotConcepts # <<>> THEN "pivotCsv" ELSE "schema"
          /\ UNCHANGED <<gr_result, gr_error, gr_failure>>
    /\ UNCHANGED <<gr_config, gr_countResponse, gr_totalCount, gr_paths,
                   gr_fetchFilters, gr_filePath, gr_files, gr_deleted>>
    /\ UNCHANGED notGr

\* the ways pivotCsv throws: before its try block (line 190) or inside it
\* (lines 213, 196 and 318), with the output file created (line 286) or not
PivotFailures ==
    {[error |-> "log error", output |-> FALSE, inTry |-> FALSE],
     [error |-> "Missing required columns", output |-> FALSE, inTry |-> TRUE],
     [error |-> "read error", output |-> FALSE, inTry |-> TRUE],
     [error |-> "write error", output |-> TRUE, inTry |-> TRUE]}

\* lines 630-648: pivotCsv reads dataset.filePath and writes exportPath; its
\* finally block removes the source; its error is thrown again as it is
PivotStep ==
    /\ gr_pc = "pivotCsv"
    /\ \/ \E failed \in PivotFailures :
             LET written == IF failed.output THEN gr_files \cup {exportPath}
                            ELSE gr_files
                 left == IF failed.inTry
                         THEN pivotFinally(written, gr_filePath) ELSE written
             IN  /\ GrReject(failed.error, "pivotCsv")
                 /\ gr_files' = left
                 /\ gr_deleted' = gr_deleted \cup (written \ left)
                 /\ UNCHANGED gr_filePath
       \/ LET written == gr_files \cup {exportPath}
          IN  /\ gr_files' = pivotFinally(written, gr_filePath)
              /\ gr_deleted' = gr_deleted
                     \cup (written \ pivotFinally(written, gr_filePath))
              /\ gr_filePath' = exportPath
              /\ gr_pc' = "done"
              /\ gr_result' = "resolved"
              /\ UNCHANGED <<gr_error, gr_failure>>
    /\ UNCHANGED <<gr_config, gr_countResponse, gr_totalCount, gr_paths,
                   gr_fetchFilters>>
    /\ UNCHANGED notGr

\* lines 649-686
SchemaStep ==
    /\ gr_pc = "schema"
    /\ gr_pc' = "done"
    /\ gr_result' = "resolved"
    /\ UNCHANGED <<gr_config, gr_countResponse, gr_totalCount, gr_paths,
                   gr_fetchFilters, gr_filePath, gr_error, gr_files,
                   gr_deleted, gr_failure>>
    /\ UNCHANGED notGr

GrPathSelected ==
    gr_pc \in {"downloadResourceCsv", "downloadResourceZip", "range",
               "pivotCsv", "schema"}
        \/ (gr_pc = "done" /\ gr_paths # <<>>)

(***************************************************************************)
(* C6.  getResource takes exactly one fetch path per call, and the         *)
(* lightweight CSV path if and only if the estimated count c satisfies     *)
(* 0 < c < 100000; at 100000 and at 0 it takes the bulk ZIP path.          *)
(***************************************************************************)
C6_LightPathIffBelowThreshold ==
    /\ Len(gr_paths) <= 1
    /\ GrPathSelected =>
          /\ Len(gr_paths) = 1
          /\ gr_paths[1] = "csv" <=> (0 < gr_totalCount /\ gr_totalCount < 100000)

C13_ResolvedFilePathExists ==
    gr_result = "resolved" =>
        /\ gr_filePath \in gr_files
        /\ gr_filePath \notin gr_deleted
        /\ gr_deleted \subseteq
              {zipPath} \cup (IF gr_config.pivotConcepts # <<>>
                              THEN {csvPath} ELSE {})

\* the bulk path with pivoting: archive and flat CSV removed, export kept
C13_Witness ==
    /\ gr_result = "resolved"
    /\ gr_paths = <<"zip">>
    /\ gr_config.pivotConcepts # <<>>
    /\ gr_deleted = {zipPath, csvPath}
    /\ gr_filePath = exportPath
    /\ gr_files = {exportPath}

(***************************************************************************)
(* C17.  Every transport failure of the metadata request, of the range     *)
(* request or of the download request, on the CSV path as on the ZIP path, *)
(* makes getResource reject with an error carrying a domain-specific       *)
(* message, not with the raw transport error.                              *)
(***************************************************************************)
C17_TransportFailuresAreWrapped ==
    gr_failure \in {"metadata request", "range request", "download request"}
        => /\ gr_result = "rejected"
           /\ gr_error \in DomainMessages

(***************************************************************************)
(* C18.  If getResource fails at a step that follows a completed download, *)
(* the range request or pivotCsv, no file produced by the call remains in  *)
(* tmpDir when the error reaches the caller.                               *)
(***************************************************************************)
C18_NoFileLeftAfterLateFailure ==
    (gr_result = "rejected" /\ gr_failure \in {"range request", "pivotCsv"})
        => gr_files = {}
(***************************************************************************)
(* downloadFileWithProgress (src/lib/utils/download.ts).                   *)
(*                                                                         *)
(* The function is an async function: it runs from one await to the next.  *)
(* The write stream, the response stream and the file system act through   *)
(* callbacks.  fs.createWriteStream opens the file in the background, and  *)
(* fs.unlink removes it in the background: both touch the disk at a time   *)
(* of their own.  A continuation of a settled promise runs before any      *)
(* further callback.                                                       *)
(***************************************************************************)
\* line 41
LogInterval == 500

MaxBody == 3

ChunkSizes == {1, 2}

\* time that may pass between two callbacks, in ms
TimeSteps == {0, 300, 600}

NoWriter ==
    [open |-> "none", ended |-> FALSE, finished |-> FALSE, errored |-> FALSE,
     buffered |-> 0]

NoFile == [exists |-> FALSE, bytes |-> 0]

Unsettled == [state |-> "pending", error |-> "none"]

DlFresh ==
    /\ dl_writer = NoWriter
    /\ dl_file = NoFile
    /\ dl_response = "none"
    /\ dl_received = 0
    /\ dl_downloadedBytes = 0
    /\ dl_lastLogged = 0
    /\ dl_now = 0
    /\ dl_reports = <<>>
    /\ dl_listening = FALSE
    /\ dl_unlinkPending = FALSE
    /\ dl_inner = Unsettled
    /\ dl_caught = "none"
    /\ dl_finishing = FALSE
    /\ dl_result = "pending"
    /\ dl_error = "none"
    /\ dl_failures = {}
    /\ dl_uncaught = FALSE

DlIdle == dl_pc = "off" /\ DlFresh

DlInit == dl_pc = "call" /\ DlFresh

\* a continuation of the async function is due: it runs before any callback
ContinuationDue ==
    \/ dl_pc \in {"catch", "catchUnlink"}
    \/ dl_pc = "streaming" /\ dl_inner.state # "pending"

\* a callback of the event loop may run
CallbackMayRun == ~ContinuationDue /\ ~dl_uncaught

\* lines 67-73, run as the 'error' listener of the writer and of the response;
\* without a listener the 'error' event is an uncaught exception
HandleError(err, writer) ==
    IF dl_listening
    THEN /\ dl_writer' = [writer EXCEPT !.ended = TRUE]
         /\ dl_unlinkPending' = TRUE
         /\ dl_inner' = IF dl_inner.state = "pending"
                        THEN [state |-> "rejected", error |-> err]
                        ELSE dl_inner
         /\ UNCHANGED dl_uncaught
    ELSE /\ dl_writer' = writer
         /\ dl_uncaught' = TRUE
         /\ UNCHANGED <<dl_unlinkPending, dl_inner>>

\* lines 14-26: the write stream is created, the request is sent
CallDownload ==
    /\ dl_pc = "call"
    /\ dl_pc' = "axiosGet"
    /\ dl_writer' = [NoWriter EXCEPT !.open = "pending"]
    /\ UNCHANGED <<dl_file, dl_response, dl_received, dl_downloadedBytes,
                   dl_lastLogged, dl_now, dl_reports, dl_listening,
                   dl_unlinkPending, dl_inner, dl_caught, dl_finishing,
                   dl_result, dl_error, dl_failures, dl_uncaught>>
    /\ UNCHANGED notDl

\* line 22: the background open of the write stream creates the empty file
WriterOpenCreatesFile ==
    /\ ~dl_uncaught
    /\ dl_writer.open = "pending"
    /\ dl_writer' = [dl_writer EXCEPT !.open = "created"]
    /\ dl_file' = [exists |-> TRUE, bytes |-> 0]
    /\ UNCHANGED <<dl_pc, dl_response, dl_received, dl_downloadedBytes,
                   dl_lastLogged, dl_now, dl_reports, dl_listening,
                   dl_unlinkPending, dl_inner, dl_caught, dl_finishing,
                   dl_result, dl_error, dl_failures, dl_uncaught>>
    /\ UNCHANGED notDl

\* line 22: the write stream learns that its file is open
WriterOpened ==
    /\ CallbackMayRun
    /\ dl_writer.open = "created"
    /\ dl_writer' = [dl_writer EXCEPT !.open = "opened"]
    /\ UNCHANGED <<dl_pc, dl_file, dl_response, dl_received, dl_downloadedBytes,
                   dl_lastLogged, dl_now, dl_reports, dl_listening,
                   dl_unlinkPending, dl_inner, dl_caught, dl_finishing,
                   dl_result, dl_error, dl_failures, dl_uncaught>>
    /\ UNCHANGED notDl

\* line 22: the file cannot be opened; the write stream emits 'error'
WriterOpenFails ==
    /\ CallbackMayRun
    /\ dl_writer.open = "pending"
    /\ dl_failures' = dl_failures \cup {"writer"}
    /\ HandleError("writer", [dl_writer EXCEPT !.open = "failed", !.errored = TRUE])
    /\ UNCHANGED <<dl_pc, dl_file, dl_response, dl_received, dl_downloadedBytes,
                   dl_lastLogged, dl_now, dl_reports, dl_listening, dl_caught,
                   dl_finishing, dl_result, dl_error>>
    /\ UNCHANGED notDl

\* lines 26-37: the response arrives, log.task is awaited
AxiosGetResolves ==
    /\ CallbackMayRun
    /\ dl_pc = "axiosGet"
    /\ dl_pc' = "logTask"
    /\ dl_response' = "ready"
    /\ UNCHANGED <<dl_writer, dl_file, dl_received, dl_downloadedBytes,
                   dl_lastLogged, dl_now, dl_reports, dl_listening,
                   dl_unlinkPending, dl_inner, dl_caught, dl_finishing,
                   dl_result, dl_error, dl_failures, dl_uncaught>>
    /\ UNCHANGED notDl

\* lines 26 and 79: the request fails before streaming begins
AxiosGetRejects ==
    /\ CallbackMayRun
    /\ dl_pc = "axiosGet"
    /\ dl_pc' = "catch"
    /\ dl_caught' = "request"
    /\ dl_failures' = dl_failures \cup {"request"}
    /\ UNCHANGED <<dl_writer, dl_file, dl_response, dl_received,
                   dl_downloadedBytes, dl_lastLogged, dl_now, dl_reports,
                   dl_listening, dl_unlinkPending, dl_inner, dl_finishing,
                   dl_result, dl_error, dl_uncaught>>
    /\ UNCHANGED notDl

\* lines 37-78: the handlers are attached and the response is piped
LogTaskResolves ==
    /\ CallbackMayRun
    /\ dl_pc = "logTask"
    /\ dl_pc' = "streaming"
    /\ dl_downloadedBytes' = 0
    /\ dl_lastLogged' = dl_now
    /\ dl_listening' = TRUE
    /\ dl_response' = "flowing"
    /\ UNCHANGED <<dl_writer, dl_file, dl_received, dl_now, dl_reports,
                   dl_unlinkPending, dl_inner, dl_caught, dl_finishing,
                   dl_result, dl_error, dl_failures, dl_uncaught>>
    /\ UNCHANGED notDl

\* a throttle that lets every chunk report
ReportAlwaysDue(now, lastLogged) == TRUE

\* line 48
ReportDue(now, lastLogged) == now - lastLogged > LogInterval

\* lines 44-52 and 55: a chunk arrives; the pipe hands it to the writer
OnData ==
    /\ CallbackMayRun
    /\ dl_response = "flowing"
    /\ \E n \in ChunkSizes, d \in TimeSteps :
          /\ dl_received + n <= MaxBody
          /\ dl_received' = dl_received + n
          /\ dl_downloadedBytes' = dl_downloadedBytes + n
          /\ dl_now' = dl_now + d
          /\ IF ReportDue(dl_now', dl_lastLogged)
             THEN /\ dl_lastLogged' = dl_now'
                  /\ dl_reports' = Append(dl_reports,
                        [at |-> dl_now', bytes |-> dl_downloadedBytes',
                         final |-> FALSE])
             ELSE UNCHANGED <<dl_lastLogged, dl_reports>>
          /\ dl_writer' = IF dl_writer.errored \/ dl_writer.ended
                          THEN dl_writer
                          ELSE [dl_writer EXCEPT !.buffered = @ + n]
    /\ UNCHANGED <<dl_pc, dl_file, dl_response, dl_listening,
                   dl_unlinkPending, dl_inner, dl_caught, dl_finishing,
                   dl_result, dl_error, dl_failures, dl_uncaught>>
    /\ UNCHANGED notDl

\* line 55: the body is over; the pipe ends the writer
ResponseEnd ==
    /\ CallbackMayRun
    /\ dl_response = "flowing"
    /\ dl_response' = "ended"
    /\ dl_writer' = IF dl_writer.errored THEN dl_writer
                    ELSE [dl_writer EXCEPT !.ended = TRUE]
    /\ UNCHANGED <<dl_pc, dl_file, dl_received, dl_downloadedBytes,
                   dl_lastLogged, dl_now, dl_reports, dl_listening,
                   dl_unlinkPending, dl_inner, dl_caught, dl_finishing,
                   dl_result, dl_error, dl_failures, dl_uncaught>>
    /\ UNCHANGED notDl

\* line 77: the response stream fails during the transfer
ResponseError ==
    /\ CallbackMayRun
    /\ dl_response = "flowing"
    /\ dl_response' = "errored"
    /\ dl_failures' = dl_failures \cup {"response"}
    /\ HandleError("response", dl_writer)
    /\ UNCHANGED <<dl_pc, dl_file, dl_received, dl_downloadedBytes,
                   dl_lastLogged, dl_now, dl_reports, dl_listening, dl_caught,
                   dl_finishing, dl_result, dl_error>>
    /\ UNCHANGED notDl

\* line 55: the writer puts its buffered bytes on disk
WriterFlush ==
    /\ CallbackMayRun
    /\ dl_writer.open = "opened"
    /\ ~dl_writer.errored
    /\ dl_writer.buffered > 0
    /\ dl_file' = IF dl_file.exists
                  THEN [dl_file EXCEPT !.bytes = @ + dl_writer.buffered]
                  ELSE dl_file
    /\ dl_writer' = [dl_writer EXCEPT !.buffered = 0]
    /\ UNCHANGED <<dl_pc, dl_response, dl_received, dl_downloadedBytes,
                   dl_lastLogged, dl_now, dl_reports, dl_listening,
                   dl_unlinkPending, dl_inner, dl_caught, dl_finishing,
                   dl_result, dl_error, dl_failures, dl_uncaught>>
    /\ UNCHANGED notDl

\* line 76: a write to disk fails; the write stream emits 'error'
WriterWriteFails ==
    /\ CallbackMayRun
    /\ dl_writer.open = "opened"
    /\ ~dl_writer.errored
    /\ dl_writer.buffered > 0
    /\ dl_failures' = dl_failures \cup {"writer"}
    /\ HandleError("writer", [dl_writer EXCEPT !.errored = TRUE])
    /\ UNCHANGED <<dl_pc, dl_file, dl_response, dl_received, dl_downloadedBytes,
                   dl_lastLogged, dl_now, dl_reports, dl_listening, dl_caught,
                   dl_finishing, dl_result, dl_error>>
    /\ UNCHANGED notDl

\* a final report that does not carry the byte count
finalProgressWithoutBytes(now, downloadedBytes) ==
    [at |-> now, bytes |-> 0, final |-> TRUE]

\* line 62: log.progress(`download ${label}`, downloadedBytes, totalLength)
finalProgress(now, downloadedBytes) ==
    [at |-> now, bytes |-> downloadedBytes, final |-> TRUE]

\* lines 60-62: the writer has finished; the final report is made
OnFinish ==
    /\ CallbackMayRun
    /\ dl_writer.open = "opened"
    /\ dl_writer.ended
    /\ ~dl_writer.errored
    /\ ~dl_writer.finished
    /\ dl_writer.buffered = 0
    /\ dl_writer' = [dl_writer EXCEPT !.finished = TRUE]
    /\ IF dl_listening
       THEN \E d \in TimeSteps :
              /\ dl_now' = dl_now + d
              /\ dl_reports' = Append(dl_reports,
                    finalProgress(dl_now', dl_downloadedBytes))
              /\ dl_finishing' = TRUE
       ELSE UNCHANGED <<dl_now, dl_reports, dl_finishing>>
    /\ UNCHANGED <<dl_pc, dl_file, dl_response, dl_received, dl_downloadedBytes,
                   dl_lastLogged, dl_listening, dl_unlinkPending, dl_inner,
                   dl_caught, dl_result, dl_error, dl_failures, dl_uncaught>>
    /\ UNCHANGED notDl

\* line 63: log.progress has answered; resolve(destPath)
FinishResolve ==
    /\ CallbackMayRun
    /\ dl_finishing
    /\ dl_finishing' = FALSE
    /\ dl_inner' = IF dl_inner.state = "pending"
                   THEN [state |-> "resolved", error |-> "none"]
                   ELSE dl_inner
    /\ UNCHANGED <<dl_pc, dl_writer, dl_file, dl_response, dl_received,
                   dl_downloadedBytes, dl_lastLogged, dl_now, dl_reports,
                   dl_listening, dl_unlinkPending, dl_caught, dl_result,
                   dl_error, dl_failures, dl_uncaught>>
    /\ UNCHANGED notDl

\* line 71: the queued fs.unlink removes the file (or finds none)
UnlinkAsync ==
    /\ ~dl_uncaught
    /\ dl_unlinkPending
    /\ dl_unlinkPending' = FALSE
    /\ dl_file' = NoFile
    /\ UNCHANGED <<dl_pc, dl_writer, dl_response, dl_received,
                   dl_downloadedBytes, dl_lastLogged, dl_now, dl_reports,
                   dl_listening, dl_inner, dl_caught, dl_finishing, dl_result,
                   dl_error, dl_failures, dl_uncaught>>
    /\ UNCHANGED notDl

\* lines 58 and 79: return await: the promise of line 58 has settled
AwaitInnerPromise ==
    /\ ~dl_uncaught
    /\ dl_pc = "streaming"
    /\ dl_inner.state # "pending"
    /\ IF dl_inner.state = "resolved"
       THEN /\ dl_pc' = "done"
            /\ dl_result' = "resolved"
            /\ UNCHANGED dl_caught
       ELSE /\ dl_pc' = "catch"
            /\ dl_caught' = dl_inner.error
            /\ UNCHANGED dl_result
    /\ UNCHANGED <<dl_writer, dl_file, dl_response, dl_received,
                   dl_downloadedBytes, dl_lastLogged, dl_now, dl_reports,
                   dl_listening, dl_unlinkPending, dl_inner, dl_finishing,
                   dl_error, dl_failures, dl_uncaught>>
    /\ UNCHANGED notDl

\* lines 79-83 and 86: writer.close(), existsSync; without a file, throw err
CatchBlock ==
    /\ ~dl_uncaught
    /\ dl_pc = "catch"
    /\ dl_writer' = [dl_writer EXCEPT !.ended = TRUE]
    /\ IF dl_file.exists
       THEN /\ dl_pc' = "catchUnlink"
            /\ UNCHANGED <<dl_result, dl_error>>
       ELSE /\ dl_pc' = "done"
            /\ dl_result' = "rejected"
            /\ dl_error' = dl_caught
    /\ UNCHANGED <<dl_file, dl_response, dl_received, dl_downloadedBytes,
                   dl_lastLogged, dl_now, dl_reports, dl_listening,
                   dl_unlinkPending, dl_inner, dl_caught, dl_finishing,
                   dl_failures, dl_uncaught>>
    /\ UNCHANGED notDl

\* lines 84-86: unlinkSync, then throw err; unlinkSync throws when the queued
\* fs.unlink has removed the file since existsSync
CatchUnlinkSync ==
    /\ ~dl_uncaught
    /\ dl_pc = "catchUnlink"
    /\ dl_pc' = "done"
    /\ dl_result' = "rejected"
    /\ dl_error' = IF dl_file.exists THEN dl_caught ELSE "ENOENT"
    /\ dl_file' = NoFile
    /\ UNCHANGED <<dl_writer, dl_response, dl_received, dl_downloadedBytes,
                   dl_lastLogged, dl_now, dl_reports, dl_listening,
                   dl_unlinkPending, dl_inner, dl_caught, dl_finishing,
                   dl_failures, dl_uncaught>>
    /\ UNCHANGED notDl

(***************************************************************************)
(* C1.  The file at destPath exists and holds the whole body if and only   *)
(* if the returned promise resolves; once the promise has rejected there   *)
(* is no file at destPath.                                                 *)
(***************************************************************************)
C1_FileIffResolved ==
    /\ dl_result = "resolved" =>
          /\ dl_response = "ended"
          /\ dl_file.exists
          /\ dl_file.bytes = dl_received
    /\ dl_result = "rejected" => ~dl_file.exists

(***************************************************************************)
(* C2.  A request failure, a response stream error and a writer error each *)
(* abort the download, delete the file at destPath and reject with the     *)
(* error that occurred; none ends in a resolved promise.                   *)
(***************************************************************************)
C2_FailureDeletesAndRejects ==
    dl_failures # {} =>
        /\ dl_result # "resolved"
        /\ ~dl_uncaught
        /\ dl_result = "rejected" =>
              /\ dl_error \in dl_failures
              /\ ~dl_file.exists


\* the reports made by the 'data' handler, in order
DlThrottledReports == SelectSeq(dl_reports, LAMBDA r : ~r.final)

\* the reports made by the 'finish' handler
DlFinalReports == SelectSeq(dl_reports, LAMBDA r : r.final)

DlSpacedOut(reports) ==
    \A i \in 1..(Len(reports) - 1) :
        reports[i + 1].at - reports[i].at >= LogInterval

(***************************************************************************)
(* C29, as stated.  During one call, any two consecutive progress reports  *)
(* are separated by at least 500 ms of clock time.                         *)
(***************************************************************************)
C29_AllReportsSpacedOut == DlSpacedOut(dl_reports)

(***************************************************************************)
(* C29, amended.  During one call, any two consecutive progress reports of *)
(* the data handler are separated by at least 500 ms of clock time, and    *)
(* the first comes at least 500 ms after the start of the transfer,        *)
(* however many chunks arrive in between.  The final report of the         *)
(* 'finish' handler is not throttled.                                      *)
(***************************************************************************)
C29_ChunkReportsSpacedOut ==
    /\ DlSpacedOut(DlThrottledReports)
    /\ DlThrottledReports # <<>> => DlThrottledReports[1].at >= LogInterval

\* two reports of the data handler with an unreported chunk between them
C29_Witness ==
    /\ Len(DlThrottledReports) >= 2
    /\ DlThrottledReports[2].at - DlThrottledReports[1].at = 900
    /\ DlThrottledReports[2].bytes - DlThrottledReports[1].bytes = 2

(***************************************************************************)
(* C30.  When a download completes, exactly one final progress report has  *)
(* been made, after the writer has finished and before the promise         *)
(* resolves, and its byte count is the number of bytes received and        *)
(* written, the sum of all chunk lengths.                                  *)
(***************************************************************************)
C30_OneFinalReportWithAllBytes ==
    /\ Len(DlFinalReports) <= 1
    /\ DlFinalReports # <<>> =>
          /\ dl_writer.finished
          /\ dl_reports[Len(dl_reports)].final
          /\ DlFinalReports[1].bytes = dl_received
    /\ (dl_inner.state = "resolved" \/ dl_result = "resolved") =>
          /\ Len(DlFinalReports) = 1
          /\ DlFinalReports[1].bytes = dl_file.bytes

\* a download of several chunks has completed, some of them unreported
C30_Witness ==
    /\ dl_result = "resolved"
    /\ dl_received = MaxBody
    /\ Len(DlFinalReports) = 1
    /\ Len(dl_reports) = 2
(***************************************************************************)
(* extractCsvWithFilters (src/lib/utils/csv.ts).  A line is its sequence   *)
(* of symbols; the output file is the sequence of the lines written.       *)
(***************************************************************************)
MaxLines == 3

QUOTE == "\""

SPACE == " "

Quoted(s) == <<QUOTE>> \o s \o <<QUOTE>>

Padded(s) == <<SPACE>> \o s \o <<SPACE>>

\* replace(/"/g, '')
removeQuotes(s) == SelectSeq(s, LAMBDA c : c # QUOTE)

RECURSIVE trim(_)
trim(s) ==
    IF s = <<>> THEN <<>>
    ELSE IF Head(s) = SPACE THEN trim(Tail(s))
    ELSE IF s[Len(s)] = SPACE THEN trim(SubSeq(s, 1, Len(s) - 1))
    ELSE s

\* line 42
cleanFilterValue(v) == removeQuotes(trim(v))

\* lines 67, 91 and 101
cleanField(col) == trim(removeQuotes(col))

\* line 54
NUMERIC_COLUMNS == {TIME_PERIOD, OBS_VALUE}

\* an emptiness test that never answers yes
NeverEmptyArchive(entriesList) == FALSE

\* line 28
IsEmptyArchive(entriesList) == Len(entriesList) = 0

\* lines 32-37: largestEntry after the first n turns of the loop, as an index
\* into entriesList; it starts as entriesList[0]
RECURSIVE largestEntryAfter(_, _)
largestEntryAfter(entries, n) ==
    IF n = 0 THEN 1
    ELSE LET largestEntry == largestEntryAfter(entries, n - 1)
         IN  IF entries[n] > entries[largestEntry] THEN n ELSE largestEntry

\* lines 32-37
LargestEntry(entries) == largestEntryAfter(entries, Len(entries))

\* lines 40-43
FilterSetsOf(filters) ==
    [i \in 1..Len(filters) |->
        [k |-> filters[i].k,
         v |-> {cleanFilterValue(x) : x \in Range(filters[i].v)}]]

\* an index map that also holds the filter concepts the header does not
\* have, at an index no row reaches
RECURSIVE FilterIndicesWithAbsent(_, _, _)
FilterIndicesWithAbsent(columns, n, filterSets) ==
    IF n = 0
    THEN [i \in 1..Len(filterSets) |-> [k |-> filterSets[i].k, v |-> 99]]
    ELSE LET before == FilterIndicesWithAbsent(columns, n - 1, filterSets)
             cleanName == cleanField(columns[n])
         IN  IF HasKey(filterSets, cleanName)
             THEN SetKey(before, cleanName, n)
             ELSE before

\* lines 66-72
RECURSIVE FilterIndicesOf(_, _, _)
FilterIndicesOf(columns, n, filterSets) ==
    IF n = 0 THEN <<>>
    ELSE LET before == FilterIndicesOf(columns, n - 1, filterSets)
             cleanName == cleanField(columns[n])
         IN  IF HasKey(filterSets, cleanName)
             THEN SetKey(before, cleanName, n)
             ELSE before

\* lines 74-75
NumericIndicesOf(columns) ==
    {i \in 1..Len(columns) : cleanField(columns[i]) \in NUMERIC_COLUMNS}

\* lines 65-80
NewHeaders(columns) ==
    [i \in 1..Len(columns) |->
        LET cleanName == cleanField(columns[i])
        IN  IF cleanName \in NUMERIC_COLUMNS THEN cleanName
            ELSE Quoted(cleanName)]

KeepLineIfAnyMatches(columns, filterIndices, filterSets) ==
    \E i \in 1..Len(filterIndices) :
        LET idx == filterIndices[i].v
            rawVal == IF idx <= Len(columns) THEN columns[idx] ELSE <<>>
        IN  cleanField(rawVal) \in GetKey(filterSets, filterIndices[i].k)

\* lines 86-96
KeepLine(columns, filterIndices, filterSets) ==
    \A i \in 1..Len(filterIndices) :
        LET idx == filterIndices[i].v
            rawVal == IF idx <= Len(columns) THEN columns[idx] ELSE <<>>
        IN  cleanField(rawVal) \in GetKey(filterSets, filterIndices[i].k)

NewRowKeepingQuotes(columns, numericIndices) ==
    [i \in 1..Len(columns) |->
        LET val == trim(columns[i])
        IN  IF val = <<>> THEN <<>>
            ELSE IF i \in numericIndices THEN val
            ELSE Quoted(val)]

\* lines 100-108
NewRow(columns, numericIndices) ==
    [i \in 1..Len(columns) |->
        LET val == cleanField(columns[i])
        IN  IF val = <<>> THEN <<>>
            ELSE IF i \in numericIndices THEN val
            ELSE Quoted(val)]

WriteLineFirst(output, fields) == <<JoinWith(fields, <<";">>)>> \o output

\* lines 81 and 110: output.write(fields.join(';') + '\n')
WriteLine(output, fields) == Append(output, JoinWith(fields, <<";">>))

\* line 61
IsBlank(line) == trim(line) = <<>>

(***************************************************************************)
(* Arguments and file contents.                                            *)
(***************************************************************************)
CodeF == <<"F">>

CodeM == <<"M">>

Year == <<"1">>

ExFilterMaps ==
    { <<>>,
      <<[k |-> GEO, v |-> <<CodeF>>]>>,
      <<[k |-> GEO, v |-> <<Quoted(CodeF), Padded(CodeM)>>]>>,
      <<[k |-> GEO, v |-> <<CodeF>>], [k |-> SEXE, v |-> <<CodeM>>]>>,
      <<[k |-> SEXE, v |-> <<>>]>>,
      <<[k |-> AGE, v |-> <<CodeF>>], [k |-> GEO, v |-> <<CodeM>>]>>,
      <<[k |-> SEXE, v |-> <<Quoted(<<>>), CodeF>>]>> }

\* sizes of the entries of the archive
ExEntryLists == {<<>>, <<2>>, <<1, 3, 3>>}

ExHeaderRows ==
    { <<Quoted(GEO), Quoted(SEXE), Quoted(TIME_PERIOD)>>,
      <<GEO, Padded(Quoted(SEXE)), TIME_PERIOD>>,
      <<Quoted(OBS_VALUE), Quoted(GEO)>> }

ExDataRowsIn ==
    { <<Quoted(CodeF), Quoted(CodeM), Quoted(Year)>>,
      <<Quoted(Quoted(CodeF)), Quoted(CodeF), Quoted(Year)>>,
      <<Padded(Quoted(CodeM)), Quoted(CodeM), <<>>>>,
      <<CodeF>>,
      <<<<>>, CodeF, Year>>,
      <<Quoted(CodeM), CodeF, Year, Quoted(CodeF)>> }

HeaderLines == {JoinWith(r, <<";">>) : r \in ExHeaderRows}

DataLines == {JoinWith(r, <<";">>) : r \in ExDataRowsIn}

BlankLines == {<<SPACE>>}

ExFresh ==
    /\ ex_largestEntry = 0
    /\ ex_filterSets = <<>>
    /\ ex_filterIndices = <<>>
    /\ ex_numericIndices = {}
    /\ ex_isHeader = TRUE
    /\ ex_lines = <<>>
    /\ ex_output = <<>>
    /\ ex_outputExists = FALSE
    /\ ex_result = "pending"
    /\ ex_error = "none"

ExIdle ==
    /\ ex_pc = "off"
    /\ ex_filters = <<>>
    /\ ex_entries = <<>>
    /\ ex_zipOpen = FALSE
    /\ ex_zipExists = FALSE
    /\ ExFresh

ExInit ==
    /\ ex_pc = "call"
    /\ ex_filters \in ExFilterMaps
    /\ ex_entries \in ExEntryLists
    /\ ex_zipOpen = FALSE
    /\ ex_zipExists = TRUE
    /\ ExFresh

\* lines 22-58
ExOpenArchive ==
    /\ ex_pc = "call"
    /\ ex_zipOpen' = TRUE
    /\ IF IsEmptyArchive(ex_entries)
       THEN /\ ex_pc' = "catch"
            /\ ex_error' = "file is empty"
            /\ UNCHANGED <<ex_largestEntry, ex_filterSets, ex_outputExists>>
       ELSE /\ ex_pc' = "reading"
            /\ ex_largestEntry' = LargestEntry(ex_entries)
            /\ ex_filterSets' = FilterSetsOf(ex_filters)
            /\ ex_outputExists' = TRUE
            /\ UNCHANGED ex_error
    /\ UNCHANGED <<ex_filters, ex_entries, ex_filterIndices, ex_numericIndices,
                   ex_isHeader, ex_lines, ex_output, ex_zipExists, ex_result>>
    /\ UNCHANGED notEx

\* lines 60-112: one turn of the loop
ExReadLine ==
    /\ ex_pc = "reading"
    /\ Len(ex_lines) < MaxLines
    /\ \E line \in (IF ex_isHeader THEN HeaderLines ELSE DataLines)
                      \cup BlankLines :
          LET columns == SplitOn(line, ";")
          IN  /\ ex_lines' = Append(ex_lines, line)
              /\ IF IsBlank(line)
                 THEN UNCHANGED <<ex_filterIndices, ex_numericIndices,
                                  ex_isHeader, ex_output>>
                 ELSE IF ex_isHeader
                 THEN /\ ex_filterIndices' =
                            FilterIndicesOf(columns, Len(columns), ex_filterSets)
                      /\ ex_numericIndices' = NumericIndicesOf(columns)
                      /\ ex_output' = WriteLine(ex_output, NewHeaders(columns))
                      /\ ex_isHeader' = FALSE
                 ELSE /\ ex_output' =
                            IF KeepLine(columns, ex_filterIndices, ex_filterSets)
                            THEN WriteLine(ex_output,
                                           NewRow(columns, ex_numericIndices))
                            ELSE ex_output
                      /\ UNCHANGED <<ex_filterIndices, ex_numericIndices,
                                     ex_isHeader>>
    /\ UNCHANGED <<ex_pc, ex_filters, ex_entries, ex_largestEntry,
                   ex_filterSets, ex_outputExists, ex_zipOpen, ex_zipExists,
                   ex_result, ex_error>>
    /\ UNCHANGED notEx

\* line 60: the entry stream fails; the iteration throws
ExStreamError ==
    /\ ex_pc = "reading"
    /\ ex_pc' = "catch"
    /\ ex_error' = "read error"
    /\ UNCHANGED <<ex_filters, ex_entries, ex_largestEntry, ex_filterSets,
                   ex_filterIndices, ex_numericIndices, ex_isHeader, ex_lines,
                   ex_output, ex_outputExists, ex_zipOpen, ex_zipExists,
                   ex_result>>
    /\ UNCHANGED notEx

\* lines 47-118: the output stream emits 'error' (disk full, I/O error) while
\* the call is suspended at line 49, 60 or 116.  No 'error' listener is ever
\* attached to output, so the event is thrown as an uncaught exception: the
\* process ends, or, under a process-level handler, the call never settles,
\* 'finish' not being emitted by a failed stream.  In neither case does the
\* finally block run.
ExWriteError ==
    /\ ex_pc = "reading"
    /\ ex_pc' = "uncaught"
    /\ ex_error' = "write error"
    /\ UNCHANGED <<ex_filters, ex_entries, ex_largestEntry, ex_filterSets,
                   ex_filterIndices, ex_numericIndices, ex_isHeader, ex_lines,
                   ex_output, ex_outputExists, ex_zipOpen, ex_zipExists,
                   ex_result>>
    /\ UNCHANGED notEx

\* lines 114-120 and 124-127
ExEndOfInput ==
    /\ ex_pc = "reading"
    /\ ex_pc' = "done"
    /\ ex_result' = "resolved"
    /\ ex_zipOpen' = FALSE
    /\ ex_zipExists' = FALSE
    /\ UNCHANGED <<ex_filters, ex_entries, ex_largestEntry, ex_filterSets,
                   ex_filterIndices, ex_numericIndices, ex_isHeader, ex_lines,
                   ex_output, ex_outputExists, ex_error>>
    /\ UNCHANGED notEx

\* lines 121-127
ExCatch ==
    /\ ex_pc = "catch"
    /\ ex_pc' = "done"
    /\ ex_result' = "rejected"
    /\ ex_zipOpen' = FALSE
    /\ ex_zipExists' = FALSE
    /\ UNCHANGED <<ex_filters, ex_entries, ex_largestEntry, ex_filterSets,
                   ex_filterIndices, ex_numericIndices, ex_isHeader, ex_lines,
                   ex_output, ex_outputExists, ex_error>>
    /\ UNCHANGED notEx

(***************************************************************************)
(* What was read and what was written, as rows of fields.                  *)
(***************************************************************************)
ExNonBlankLines == SelectSeq(ex_lines, LAMBDA l : ~IsBlank(l))

ExHeaderNames ==
    IF ExNonBlankLines = <<>> THEN <<>>
    ELSE LET h == SplitOn(Head(ExNonBlankLines), ";")
         IN  [i \in 1..Len(h) |-> cleanField(h[i])]

ExDataRows ==
    IF ExNonBlankLines = <<>> THEN <<>>
    ELSE [i \in 1..(Len(ExNonBlankLines) - 1) |->
            SplitOn(ExNonBlankLines[i + 1], ";")]

ExWrittenRows ==
    IF ex_output = <<>> THEN <<>>
    ELSE [i \in 1..(Len(ex_output) - 1) |-> SplitOn(ex_output[i + 1], ";")]

ExIsNumericColumn(j) ==
    LET names == ExHeaderNames
    IN  j <= Len(names) /\ names[j] \in {TIME_PERIOD, OBS_VALUE}

ExFieldAt(row, j) == IF j <= Len(row) THEN row[j] ELSE <<>>

\* every filter that names a column of the header admits the row's field
ExPassesAllFilters(row) ==
    LET names == ExHeaderNames
    IN  \A f \in Range(ex_filters) :
            \A j \in 1..Len(names) :
                names[j] = f.k =>
                    cleanField(ExFieldAt(row, j))
                        \in {cleanFilterValue(x) : x \in Range(f.v)}

ExCleanRow(row) == [j \in 1..Len(row) |-> cleanField(row[j])]

ExFieldDue(raw, j) ==
    LET val == cleanField(raw)
    IN  IF val = <<>> THEN <<>>
        ELSE IF ExIsNumericColumn(j) THEN val
        ELSE <<QUOTE>> \o val \o <<QUOTE>>

ExLineDue(row) ==
    JoinWith([j \in 1..Len(row) |-> ExFieldDue(row[j], j)], <<";">>)

RECURSIVE IsSubsequence(_, _)
IsSubsequence(a, b) ==
    IF a = <<>> THEN TRUE
    ELSE IF b = <<>> THEN FALSE
    ELSE IF Head(a) = Head(b) THEN IsSubsequence(Tail(a), Tail(b))
    ELSE IsSubsequence(a, Tail(b))

(***************************************************************************)
(* C4.  The data rows written are an order-preserving subsequence of the   *)
(* input data rows, each written whole in its transformed form, none twice *)
(* and none out of order; there are never more rows out than rows in.      *)
(***************************************************************************)
C4_WrittenRowsAreSubsequence ==
    /\ ex_output # <<>> =>
          IsSubsequence(Tail(ex_output),
                        [i \in 1..Len(ExDataRows) |-> ExLineDue(ExDataRows[i])])
    /\ Len(ExWrittenRows) <= Len(ExDataRows)

C4_Witness ==
    /\ ex_result = "resolved"
    /\ Len(ex_filterIndices) >= 1
    /\ Len(ExWrittenRows) = 2
    /\ ExWrittenRows[1] # ExWrittenRows[2]

(***************************************************************************)
(* C5.  In every row written, a non-empty field of a column other than     *)
(* TIME_PERIOD and OBS_VALUE stands in exactly one pair of double quotes,  *)
(* however the input field was quoted; a field of TIME_PERIOD or OBS_VALUE *)
(* is written without quotes; an empty field is written bare.              *)
(***************************************************************************)
C5_OutputQuoting ==
    LET kept == SelectSeq(ExDataRows, ExPassesAllFilters)
        written == ExWrittenRows
        numeric == {j \in 1..Len(ExHeaderNames) : ExIsNumericColumn(j)}
    IN  \A i \in 1..Len(written) :
            /\ i <= Len(kept)
            /\ Len(written[i]) = Len(kept[i])
            /\ \A j \in 1..Len(kept[i]) :
                  LET val == cleanField(kept[i][j])
                      out == written[i][j]
                  IN  /\ val = <<>> => out = <<>>
                      /\ val # <<>> /\ j \in numeric =>
                            out = val /\ QUOTE \notin Range(out)
                      /\ val # <<>> /\ j \notin numeric =>
                            /\ Len(out) = Len(val) + 2
                            /\ out[1] = QUOTE
                            /\ out[Len(out)] = QUOTE
                            /\ SubSeq(out, 2, Len(out) - 1) = val
                            /\ QUOTE \notin Range(val)

C5_Witness ==
    /\ ex_result = "resolved"
    /\ \E i \in 1..Len(ExWrittenRows) :
          LET kept == SelectSeq(ExDataRows, ExPassesAllFilters)
          IN  /\ i <= Len(kept)
              /\ \E j \in 1..Len(kept[i]) :
                    /\ ~ExIsNumericColumn(j)
                    /\ Len(kept[i][j]) >= 2
                    /\ kept[i][j][1] = QUOTE
                    /\ kept[i][j][2] = QUOTE
                    /\ cleanField(kept[i][j]) # <<>>
              /\ \E j \in 1..Len(kept[i]) :
                    /\ ExIsNumericColumn(j)
                    /\ QUOTE \in Range(kept[i][j])
                    /\ cleanField(kept[i][j]) # <<>>
    /\ \E i \in 1..Len(ExWrittenRows) :
          \E j \in 1..Len(ExWrittenRows[i]) : ExWrittenRows[i][j] = <<>>


(***************************************************************************)
(* C14.  When extractCsvWithFilters fails after it has created its output  *)
(* file, no file remains at the output path once the error has reached the *)
(* caller.                                                                 *)
(***************************************************************************)
C14_NoOutputLeftOnFailure ==
    ex_result = "rejected" => ~ex_outputExists

(***************************************************************************)
(* C15.  On every exit of extractCsvWithFilters, by success, empty-archive *)
(* error, read error or write error, the archive handle has been closed    *)
(* and the temporary ZIP file has been deleted.                            *)
(***************************************************************************)
C15_ArchiveClosedAndDeletedOnEveryExit ==
    ex_pc \in {"done", "uncaught"} => ~ex_zipOpen /\ ~ex_zipExists

(***************************************************************************)
(* C19.  If the header of the CSV source lacks the column OBS_VALUE,       *)
(* extractCsvWithFilters aborts with an error before any output is         *)
(* written: neither the header line nor a data row reaches the output.     *)
(***************************************************************************)
C19_MissingObsValueAborts ==
    (~ex_isHeader /\ OBS_VALUE \notin Range(ExHeaderNames))
        => /\ ex_output = <<>>
           /\ ex_result # "resolved"

ExPresentFilters ==
    SelectSeq(ex_filters, LAMBDA f : f.k \in Range(ExHeaderNames))

\* what the call writes for the lines read when it is given filters
ExOutputUnder(filters) ==
    LET header == SplitOn(Head(ExNonBlankLines), ";")
        filterSets == FilterSetsOf(filters)
        filterIndices == FilterIndicesOf(header, Len(header), filterSets)
        numericIndices == NumericIndicesOf(header)
        kept == SelectSeq(ExDataRows,
                          LAMBDA row : KeepLine(row, filterIndices, filterSets))
    IN  <<JoinWith(NewHeaders(header), <<";">>)>>
            \o [i \in 1..Len(kept) |->
                  JoinWith(NewRow(kept[i], numericIndices), <<";">>)]

MaxArchiveEntries == 3

MaxEntrySize == 2

ArchiveInputs == SeqsUpTo(0..MaxEntrySize, MaxArchiveEntries)

\* part_002, lines 27-36: bestEntry (0 is null) and maxSize after n turns
RECURSIVE bestEntryAfter(_, _)
bestEntryAfter(entries, n) ==
    IF n = 0 THEN [bestEntry |-> 0, maxSize |-> 0]
    ELSE LET before == bestEntryAfter(entries, n - 1)
         IN  IF entries[n] > before.maxSize
             THEN [bestEntry |-> n, maxSize |-> entries[n]]
             ELSE before

SeIdle ==
    /\ se_pc = "off"
    /\ se_entries = <<>>
    /\ se_function = "none"
    /\ se_selected = 0
    /\ se_error = "none"

SeInit ==
    /\ se_pc = "call"
    /\ se_entries \in ArchiveInputs
    /\ se_function = "none"
    /\ se_selected = 0
    /\ se_error = "none"

\* csv.ts, lines 25-37, and utils.ts, lines 36-48
SelectLargestEntry ==
    /\ se_pc = "call"
    /\ se_pc' = "done"
    /\ se_function' \in {"extractCsvWithFilters", "extractCsv"}
    /\ IF IsEmptyArchive(se_entries)
       THEN /\ se_error' = "file is empty"
            /\ UNCHANGED se_selected
       ELSE /\ se_selected' = LargestEntry(se_entries)
            /\ UNCHANGED se_error
    /\ UNCHANGED se_entries
    /\ UNCHANGED notSe

\* part_002, lines 23-40
ExtractZipAndSelect ==
    /\ se_pc = "call"
    /\ se_pc' = "done"
    /\ se_function' = "extractZipAndSelect"
    /\ LET bestEntry == bestEntryAfter(se_entries, Len(se_entries)).bestEntry
       IN  IF bestEntry = 0
           THEN /\ se_error' = "No entries found in the ZIP file"
                /\ UNCHANGED se_selected
           ELSE /\ se_selected' = bestEntry
                /\ UNCHANGED se_error
    /\ UNCHANGED se_entries
    /\ UNCHANGED notSe

(***************************************************************************)
(* C23.  For every non-empty archive each of the three functions selects   *)
(* an entry whose uncompressed size is maximal over all entries, the first *)
(* one in enumeration order among several of that size; a non-empty        *)
(* archive always yields a selected entry.                                 *)
(***************************************************************************)
C23_FirstMaximalEntrySelected ==
    (se_pc = "done" /\ se_entries # <<>>) =>
        /\ se_error = "none"
        /\ se_selected \in 1..Len(se_entries)
        /\ \A j \in 1..Len(se_entries) :
              se_entries[j] <= se_entries[se_selected]
        /\ \A j \in 1..(se_selected - 1) :
              se_entries[j] < se_entries[se_selected]

(***************************************************************************)
(* pivotCsv (src/lib/utils/csv.ts).                                        *)
(*                                                                         *)
(* Numbers: the observation values of the model are unsigned decimal texts *)
(* with at most one fractional digit, 0 or 5, so that every sum is a       *)
(* multiple of one half and binary floating point adds it exactly.  A      *)
(* number is held as its count of tenths; NaN is a value of its own.       *)
(***************************************************************************)
MaxPivotLines == 3

COMMA == ","

DOT == "."

UpperCase ==
    <<"A", "B", "C", "D", "E", "F", "G", "H", "I", "J", "K", "L", "M",
      "N", "O", "P", "Q", "R", "S", "T", "U", "V", "W", "X", "Y", "Z">>

LowerCase ==
    <<"a", "b", "c", "d", "e", "f", "g", "h", "i", "j", "k", "l", "m",
      "n", "o", "p", "q", "r", "s", "t", "u", "v", "w", "x", "y", "z">>

\* UTF-16 order of the symbols a synthesized column key is made of
CodeUnitOrder == DigitSym \o LowerCase

toLowerCase(s) ==
    [i \in 1..Len(s) |->
        IF \E k \in 1..Len(UpperCase) : UpperCase[k] = s[i]
        THEN LowerCase[CHOOSE k \in 1..Len(UpperCase) : UpperCase[k] = s[i]]
        ELSE IF s[i] = "É" THEN "é"
        ELSE s[i]]

\* normalize('NFD').replace(/[\u0300-\u036f]/g, '')
stripAccents(s) == [i \in 1..Len(s) |-> IF s[i] = "é" THEN "e" ELSE s[i]]

includes(s, sub) ==
    \E i \in 0..(Len(s) - Len(sub)) : SubSeq(s, i + 1, i + Len(sub)) = sub

\* c.trim().replace(/^"|"$/g, ''), line 205
stripOuterQuotes(s) ==
    LET a == IF s # <<>> /\ Head(s) = QUOTE THEN Tail(s) ELSE s
    IN  IF a # <<>> /\ a[Len(a)] = QUOTE THEN SubSeq(a, 1, Len(a) - 1) ELSE a

\* line 205
PivotCols(line) ==
    LET raw == SplitOn(line, ";")
    IN  [i \in 1..Len(raw) |-> stripOuterQuotes(trim(raw[i]))]

\* line 209
RECURSIVE ColIndicesOf(_, _)
ColIndicesOf(cols, n) ==
    IF n = 0 THEN <<>> ELSE SetKey(ColIndicesOf(cols, n - 1), cols[n], n)

\* lines 227-230
isEnd(key) ==
    LET k == toLowerCase(key)
    IN  \/ includes(k, <<"a", "g", "e">>)
        \/ includes(k, <<"s", "e", "x">>)
        \/ includes(k, <<"s", "e", "x", "e">>)

\* lines 231-236: the comparator given to sort
compareConcepts(a, b) ==
    IF isEnd(a) /\ ~isEnd(b) THEN 1
    ELSE IF ~isEnd(a) /\ isEnd(b) THEN -1
    ELSE 0

\* line 226: Array.prototype.sort is stable; an element is placed after the
\* elements that do not compare greater than it
RECURSIVE insertConcept(_, _)
insertConcept(sorted, x) ==
    IF sorted = <<>> THEN <<x>>
    ELSE IF compareConcepts(sorted[Len(sorted)], x) > 0
    THEN Append(insertConcept(SubSeq(sorted, 1, Len(sorted) - 1), x),
                sorted[Len(sorted)])
    ELSE Append(sorted, x)

\* the concepts in the order in which they are declared
declaredConcepts(pivotConcepts) == pivotConcepts

\* lines 226-237
RECURSIVE sortedConcepts(_)
sortedConcepts(pivotConcepts) ==
    IF pivotConcepts = <<>> THEN <<>>
    ELSE insertConcept(sortedConcepts(SubSeq(pivotConcepts, 1,
                                             Len(pivotConcepts) - 1)),
                       pivotConcepts[Len(pivotConcepts)])

\* line 248
cleanVal(val) ==
    SelectSeq(stripAccents(toLowerCase(val)),
              LAMBDA c : c \in Range(CodeUnitOrder))

\* lines 161-172
LabelsMapOf(rangeTable) ==
    [i \in 1..Len(rangeTable) |->
        [k |-> rangeTable[i].concept, v |-> rangeTable[i].values]]

\* line 251
humanLabel(labelsMap, pc, val) ==
    IF HasKey(labelsMap, pc) /\ HasKey(GetKey(labelsMap, pc), val)
       /\ GetKey(GetKey(labelsMap, pc), val) # <<>>
    THEN GetKey(GetKey(labelsMap, pc), val)
    ELSE val

\* lines 243-245: the pivot concepts that are columns of the source
ResolvedConcepts(pivotConcepts, colIndices) ==
    SelectSeq(sortedConcepts(pivotConcepts), LAMBDA pc : HasKey(colIndices, pc))

\* line 246-248: val.toLowerCase() throws when the row has no such field
PivotFieldMissing(cols, pivotConcepts, colIndices) ==
    \E pc \in Range(ResolvedConcepts(pivotConcepts, colIndices)) :
        GetKey(colIndices, pc) > Len(cols)

\* a column name that also depends on the first field of the row
finalColNameByRow(cols, pivotConcepts, colIndices) ==
    LET resolved == ResolvedConcepts(pivotConcepts, colIndices)
        pivotParts == [i \in 1..Len(resolved) |->
                          cleanVal(cols[GetKey(colIndices, resolved[i])])]
    IN  IF Len(pivotParts) > 0
        THEN cleanVal(cols[1]) \o JoinWith(pivotParts, <<>>)
        ELSE <<"v", "a", "l", "u", "e">>

\* lines 240-257
finalColName(cols, pivotConcepts, colIndices) ==
    LET resolved == ResolvedConcepts(pivotConcepts, colIndices)
        pivotParts == [i \in 1..Len(resolved) |->
                          cleanVal(cols[GetKey(colIndices, resolved[i])])]
    IN  IF Len(pivotParts) > 0 THEN JoinWith(pivotParts, <<>>)
        ELSE <<"v", "a", "l", "u", "e">>

\* lines 241-258
finalColTitle(cols, pivotConcepts, colIndices, labelsMap) ==
    LET resolved == ResolvedConcepts(pivotConcepts, colIndices)
        titleParts == [i \in 1..Len(resolved) |->
                          humanLabel(labelsMap, resolved[i],
                                     cols[GetKey(colIndices, resolved[i])])]
    IN  IF Len(titleParts) > 0 THEN JoinWith(titleParts, <<" ", "-", " ">>)
        ELSE <<"V", "a", "l", "e", "u", "r">>

NaN == [nan |-> TRUE, tenths |-> 0]

Number(tenths) == [nan |-> FALSE, tenths |-> tenths]

IsDigit(c) == c \in Range(DigitSym)

DigitValue(c) == (CHOOSE d \in 1..10 : DigitSym[d] = c) - 1

RECURSIVE DigitsValue(_)
DigitsValue(s) ==
    IF s = <<>> THEN 0
    ELSE 10 * DigitsValue(SubSeq(s, 1, Len(s) - 1)) + DigitValue(s[Len(s)])

\* the longest prefix of digits
RECURSIVE LeadingDigits(_)
LeadingDigits(s) ==
    IF s # <<>> /\ IsDigit(Head(s)) THEN <<Head(s)>> \o LeadingDigits(Tail(s))
    ELSE <<>>

\* replace(',', '.'): the first comma only
replaceComma(s) ==
    IF COMMA \notin Range(s) THEN s
    ELSE LET p == CHOOSE i \in 1..Len(s) :
                    s[i] = COMMA /\ \A j \in 1..(i - 1) : s[j] # COMMA
         IN  [s EXCEPT ![p] = DOT]

\* parseFloat of an unsigned decimal text, to the first fractional digit
parseFloat(s) ==
    LET t == trim(s)
        whole == LeadingDigits(t)
        rest == SubSeq(t, Len(whole) + 1, Len(t))
        frac == IF rest # <<>> /\ Head(rest) = DOT
                THEN LeadingDigits(Tail(rest)) ELSE <<>>
    IN  IF whole = <<>> /\ frac = <<>> THEN NaN
        ELSE Number(10 * DigitsValue(whole)
                      + (IF frac = <<>> THEN 0 ELSE DigitValue(Head(frac))))

\* line 276
Plus(a, b) == IF a.nan \/ b.nan THEN NaN ELSE Number(a.tenths + b.tenths)

\* Number.prototype.toString
NumberToString(x) ==
    IF x.nan THEN <<"N", "a", "N">>
    ELSE NatToString(x.tenths \div 10)
            \o (IF x.tenths % 10 = 0 THEN <<>>
                ELSE <<DOT>> \o NatToString(x.tenths % 10))

\* x || '0'
OrZero(s) == IF s = <<>> THEN <<"0">> ELSE s

OverwrittenCell(previous, obsVal) ==
    NumberToString(parseFloat(replaceComma(OrZero(obsVal))))

\* lines 274-277: previous is rowObj[finalColName], empty when not set yet
AccumulatedCell(previous, obsVal) ==
    NumberToString(Plus(parseFloat(replaceComma(OrZero(previous))),
                        parseFloat(replaceComma(OrZero(obsVal)))))

\* cols[idx], an undefined field read as the empty text
ColAt(cols, colIndices, name) ==
    IF GetKey(colIndices, name) <= Len(cols)
    THEN cols[GetKey(colIndices, name)] ELSE <<>>

\* rowObj[key], undefined read as the empty text
Cell(rowObj, key) == IF HasKey(rowObj, key) THEN GetKey(rowObj, key) ELSE <<>>

\* line 261
rowKey(geoVal, timeVal) == geoVal \o <<"|">> \o timeVal

\* lines 264-277
BufferAfter(buffer, cols, colIndices, pivotConcepts) ==
    LET geoVal == ColAt(cols, colIndices, GEO)
        timeVal == ColAt(cols, colIndices, TIME_PERIOD)
        obsVal == ColAt(cols, colIndices, OBS_VALUE)
        key == rowKey(geoVal, timeVal)
        colName == finalColName(cols, pivotConcepts, colIndices)
        rowObj == IF HasKey(buffer, key) THEN GetKey(buffer, key)
                  ELSE <<[k |-> GEO, v |-> geoVal],
                         [k |-> TIME_PERIOD, v |-> timeVal]>>
    IN  SetKey(buffer, key,
               SetKey(rowObj, colName,
                      AccumulatedCell(Cell(rowObj, colName), obsVal)))

LexLess(a, b) ==
    \E i \in 1..(Len(a) + 1) :
        /\ i <= Len(b)
        /\ SubSeq(a, 1, i - 1) = SubSeq(b, 1, i - 1)
        /\ \/ i = Len(a) + 1
           \/ (CHOOSE r \in 1..Len(CodeUnitOrder) : CodeUnitOrder[r] = a[i])
                < (CHOOSE r \in 1..Len(CodeUnitOrder) : CodeUnitOrder[r] = b[i])

\* the keys in the order of first sight
unsortedDynHeaders(dynamicHeadersMap) ==
    [i \in 1..Len(dynamicHeadersMap) |-> dynamicHeadersMap[i].k]

\* line 293
sortedDynHeaders(dynamicHeadersMap) ==
    SortSeq([i \in 1..Len(dynamicHeadersMap) |-> dynamicHeadersMap[i].k],
            LexLess)

code_insee == <<"c", "o", "d", "e", "_", "i", "n", "s", "e", "e">>

periode == <<"p", "e", "r", "i", "o", "d", "e">>

\* lines 290-296
PivotHeaderLine(dynamicHeadersMap) ==
    JoinWith(<<code_insee, periode>> \o sortedDynHeaders(dynamicHeadersMap),
             <<";">>)

\* a row line that leaves a cell without contribution empty
PivotRowLineBlank(rowData, dynamicHeadersMap) ==
    LET headers == sortedDynHeaders(dynamicHeadersMap)
    IN  JoinWith(<<Quoted(GetKey(rowData, GEO)), GetKey(rowData, TIME_PERIOD)>>
                    \o [i \in 1..Len(headers) |-> Cell(rowData, headers[i])],
                 <<";">>)

\* lines 299-311
PivotRowLine(rowData, dynamicHeadersMap) ==
    LET headers == sortedDynHeaders(dynamicHeadersMap)
    IN  JoinWith(<<Quoted(GetKey(rowData, GEO)), GetKey(rowData, TIME_PERIOD)>>
                    \o [i \in 1..Len(headers) |->
                          OrZero(Cell(rowData, headers[i]))],
                 <<";">>)

\* lines 296-311
PivotOutput(buffer, dynamicHeadersMap) ==
    <<PivotHeaderLine(dynamicHeadersMap)>>
        \o [i \in 1..Len(buffer) |-> PivotRowLine(buffer[i].v, dynamicHeadersMap)]

\* a schema that lists the dynamic columns in the order of first sight
schemaInOrderOfFirstSight(dynamicHeadersMap) ==
    <<[key |-> code_insee,
       title |-> <<"C", "o", "d", "e", " ", "I", "n", "s", "e", "e">>,
       type |-> "string"],
      [key |-> periode,
       title |-> <<"P", "é", "r", "i", "o", "d", "e">>,
       type |-> "string"]>>
        \o [i \in 1..Len(dynamicHeadersMap) |->
              [key |-> dynamicHeadersMap[i].k,
               title |-> dynamicHeadersMap[i].v,
               type |-> "number"]]

\* lines 321-342
generatedSchema(dynamicHeadersMap) ==
    LET headers == sortedDynHeaders(dynamicHeadersMap)
    IN  <<[key |-> code_insee,
           title |-> <<"C", "o", "d", "e", " ", "I", "n", "s", "e", "e">>,
           type |-> "string"],
          [key |-> periode,
           title |-> <<"P", "é", "r", "i", "o", "d", "e">>,
           type |-> "string"]>>
        \o [i \in 1..Len(headers) |->
              [key |-> headers[i],
               title |-> IF GetKey(dynamicHeadersMap, headers[i]) # <<>>
                         THEN GetKey(dynamicHeadersMap, headers[i])
                         ELSE headers[i],
               type |-> "number"]]

(***************************************************************************)
(* Arguments and file contents.                                            *)
(***************************************************************************)
FR == <<"F", "R">>

DE == <<"D", "E">>

SexeLabels ==
    <<[concept |-> SEXE,
       values |-> <<[k |-> CodeF, v |-> <<"F", "e", "m", "m", "e">>]>>]>>

\* pivotConcepts and rangeTable of a call
PvCalls ==
    { [pivotConcepts |-> <<>>, rangeTable |-> <<>>],
      [pivotConcepts |-> <<SEXE>>, rangeTable |-> SexeLabels],
      [pivotConcepts |-> <<AGE>>, rangeTable |-> <<>>],
      [pivotConcepts |-> <<SEXE, GEO>>, rangeTable |-> <<>>],
      [pivotConcepts |-> <<SEXE, TIME_PERIOD, GEO>>, rangeTable |-> SexeLabels] }

PvHeaderRows ==
    { <<Quoted(GEO), TIME_PERIOD, Quoted(SEXE), OBS_VALUE>>,
      <<GEO, TIME_PERIOD, AGE, OBS_VALUE>>,
      <<Quoted(GEO), TIME_PERIOD, Quoted(SEXE)>>,
      <<TIME_PERIOD, Quoted(SEXE), OBS_VALUE>> }

PvDataRowsIn ==
    { <<Quoted(FR), Year, Quoted(CodeF), <<"1", "0", "0">>>>,
      <<Quoted(FR), Year, Quoted(CodeF), <<"4", "0">>>>,
      <<Quoted(FR), Year, Quoted(CodeF), <<"6", "0">>>>,
      <<Quoted(FR), Year, Quoted(CodeM), <<"2", COMMA, "5">>>>,
      <<Quoted(DE), Year, Quoted(CodeM), <<"0", DOT, "5">>>>,
      <<FR, Year, <<"_", "F">>, <<>>>>,
      <<<<>>, Year, Quoted(CodeF), <<"4", "0">>>>,
      <<Quoted(DE), Year>>,
      <<Quoted(FR), Year, <<"V", "a", "l", "u", "e">>, <<"4", "0">>>> }

PvHeaderLines == {JoinWith(r, <<";">>) : r \in PvHeaderRows}

PvDataLines == {JoinWith(r, <<";">>) : r \in PvDataRowsIn}

PvFresh ==
    /\ pv_labelsMap = <<>>
    /\ pv_lines = <<>>
    /\ pv_sourceHeaders = <<>>
    /\ pv_colIndices = <<>>
    /\ pv_buffer = <<>>
    /\ pv_dynamicHeadersMap = <<>>
    /\ pv_output = <<>>
    /\ pv_outputExists = FALSE
    /\ pv_schema = <<>>
    /\ pv_result = "pending"
    /\ pv_error = "none"

PvIdle ==
    /\ pv_pc = "off"
    /\ pv_pivotConcepts = <<>>
    /\ pv_rangeTable = <<>>
    /\ pv_sourceExists = FALSE
    /\ PvFresh

PvInit ==
    /\ pv_pc = "call"
    /\ \E call \in PvCalls :
          /\ pv_pivotConcepts = call.pivotConcepts
          /\ pv_rangeTable = call.rangeTable
    /\ pv_sourceExists = TRUE
    /\ PvFresh

\* a check that does not ask for the observation column
MissingGeoOrTime(colIndices) ==
    ~({GEO, TIME_PERIOD} \subseteq Keys(colIndices))

\* line 212
MissingRequiredColumns(colIndices) ==
    ~({GEO, TIME_PERIOD, OBS_VALUE} \subseteq Keys(colIndices))

\* lines 157-194.  The await of log.task at line 190 stands before the try
\* block of line 191: when the logger rejects, the call throws from there and
\* the finally block of lines 348-353 is not entered.
PvStart ==
    /\ pv_pc = "call"
    /\ pv_labelsMap' = LabelsMapOf(pv_rangeTable)
    /\ \/ /\ pv_pc' = "reading"
          /\ UNCHANGED <<pv_result, pv_error>>
       \/ /\ pv_pc' = "done"
          /\ pv_result' = "rejected"
          /\ pv_error' = "log error"
    /\ UNCHANGED <<pv_pivotConcepts, pv_rangeTable, pv_lines, pv_sourceHeaders,
                   pv_colIndices, pv_buffer, pv_dynamicHeadersMap, pv_output,
                   pv_outputExists, pv_sourceExists, pv_schema>>
    /\ UNCHANGED notPv

\* lines 196-283: one turn of the loop
PvReadLine ==
    /\ pv_pc = "reading"
    /\ Len(pv_lines) < MaxPivotLines
    /\ \E line \in (IF pv_sourceHeaders = <<>> THEN PvHeaderLines
                    ELSE PvDataLines) \cup BlankLines :
          LET cols == PivotCols(line)
              colIndices == ColIndicesOf(cols, Len(cols))
          IN  /\ pv_lines' = Append(pv_lines, line)
              /\ IF IsBlank(line)
                 THEN UNCHANGED <<pv_pc, pv_sourceHeaders, pv_colIndices,
                                  pv_buffer, pv_dynamicHeadersMap, pv_error>>
                 ELSE IF pv_sourceHeaders = <<>>
                 THEN /\ pv_sourceHeaders' = cols
                      /\ pv_colIndices' = colIndices
                      /\ IF ~MissingRequiredColumns(colIndices)
                         THEN UNCHANGED <<pv_pc, pv_error>>
                         ELSE /\ pv_pc' = "finally"
                              /\ pv_error' = "Missing required columns"
                      /\ UNCHANGED <<pv_buffer, pv_dynamicHeadersMap>>
                 ELSE IF ColAt(cols, pv_colIndices, GEO) = <<>>
                         \/ ColAt(cols, pv_colIndices, TIME_PERIOD) = <<>>
                 THEN UNCHANGED <<pv_pc, pv_sourceHeaders, pv_colIndices,
                                  pv_buffer, pv_dynamicHeadersMap, pv_error>>
                 ELSE IF PivotFieldMissing(cols, pv_pivotConcepts, pv_colIndices)
                 THEN /\ pv_pc' = "finally"
                      /\ pv_error' = "TypeError"
                      /\ UNCHANGED <<pv_sourceHeaders, pv_colIndices, pv_buffer,
                                     pv_dynamicHeadersMap>>
                 ELSE LET colName == finalColName(cols, pv_pivotConcepts,
                                                  pv_colIndices)
                      IN  /\ pv_buffer' = BufferAfter(pv_buffer, cols,
                                            pv_colIndices, pv_pivotConcepts)
                          /\ pv_dynamicHeadersMap' =
                                IF HasKey(pv_dynamicHeadersMap, colName)
                                THEN pv_dynamicHeadersMap
                                ELSE SetKey(pv_dynamicHeadersMap, colName,
                                        finalColTitle(cols, pv_pivotConcepts,
                                                pv_colIndices, pv_labelsMap))
                          /\ UNCHANGED <<pv_pc, pv_sourceHeaders, pv_colIndices,
                                         pv_error>>
    /\ UNCHANGED <<pv_pivotConcepts, pv_rangeTable, pv_labelsMap, pv_output,
                   pv_outputExists, pv_sourceExists, pv_schema, pv_result>>
    /\ UNCHANGED notPv

\* line 196: the source stream fails; the iteration throws
PvReadError ==
    /\ pv_pc = "reading"
    /\ pv_pc' = "finally"
    /\ pv_error' = "read error"
    /\ UNCHANGED <<pv_pivotConcepts, pv_rangeTable, pv_labelsMap, pv_lines,
                   pv_sourceHeaders, pv_colIndices, pv_buffer,
                   pv_dynamicHeadersMap, pv_output, pv_outputExists,
                   pv_sourceExists, pv_schema, pv_result>>
    /\ UNCHANGED notPv

\* lines 286-314: the source is read; the output file is written
PvWriteOutput ==
    /\ pv_pc = "reading"
    /\ pv_pc' = "written"
    /\ pv_outputExists' = TRUE
    /\ pv_output' = PivotOutput(pv_buffer, pv_dynamicHeadersMap)
    /\ UNCHANGED <<pv_pivotConcepts, pv_rangeTable, pv_labelsMap, pv_lines,
                   pv_sourceHeaders, pv_colIndices, pv_buffer,
                   pv_dynamicHeadersMap, pv_sourceExists, pv_schema, pv_result,
                   pv_error>>
    /\ UNCHANGED notPv

\* lines 316-319: the output stream emits 'error'
PvWriteError ==
    /\ pv_pc = "written"
    /\ pv_pc' = "finally"
    /\ pv_error' = "write error"
    /\ UNCHANGED <<pv_pivotConcepts, pv_rangeTable, pv_labelsMap, pv_lines,
                   pv_sourceHeaders, pv_colIndices, pv_buffer,
                   pv_dynamicHeadersMap, pv_output, pv_outputExists,
                   pv_sourceExists, pv_schema, pv_result>>
    /\ UNCHANGED notPv

\* lines 316-353: 'finish', the schema, the return and the finally block
PvReturn ==
    /\ pv_pc = "written"
    /\ pv_pc' = "done"
    /\ pv_schema' = generatedSchema(pv_dynamicHeadersMap)
    /\ pv_result' = "resolved"
    /\ pv_sourceExists' = FALSE
    /\ UNCHANGED <<pv_pivotConcepts, pv_rangeTable, pv_labelsMap, pv_lines,
                   pv_sourceHeaders, pv_colIndices, pv_buffer,
                   pv_dynamicHeadersMap, pv_output, pv_outputExists, pv_error>>
    /\ UNCHANGED notPv

\* lines 348-353: the finally block after a throw
PvFinally ==
    /\ pv_pc = "finally"
    /\ pv_pc' = "done"
    /\ pv_result' = "rejected"
    /\ pv_sourceExists' = FALSE
    /\ UNCHANGED <<pv_pivotConcepts, pv_rangeTable, pv_labelsMap, pv_lines,
                   pv_sourceHeaders, pv_colIndices, pv_buffer,
                   pv_dynamicHeadersMap, pv_output, pv_outputExists, pv_schema,
                   pv_error>>
    /\ UNCHANGED notPv

(***************************************************************************)
(* What was read and what was written, as rows of fields.                  *)
(***************************************************************************)
PvNonBlankLines == SelectSeq(pv_lines, LAMBDA l : ~IsBlank(l))

\* the source rows that land in a cell: the rows with a GEO and a TIME_PERIOD
PvSourceRows ==
    IF PvNonBlankLines = <<>> THEN <<>>
    ELSE SelectSeq([i \in 1..(Len(PvNonBlankLines) - 1) |->
                        PivotCols(PvNonBlankLines[i + 1])],
                   LAMBDA cols : /\ ColAt(cols, pv_colIndices, GEO) # <<>>
                                 /\ ColAt(cols, pv_colIndices, TIME_PERIOD) # <<>>)

PvRowKeyOf(cols) ==
    <<ColAt(cols, pv_colIndices, GEO), ColAt(cols, pv_colIndices, TIME_PERIOD)>>

PvColumnOf(cols) == finalColName(cols, pv_pivotConcepts, pv_colIndices)

\* the observation value of a source row, in tenths
PvObservation(cols) ==
    LET text == ColAt(cols, pv_colIndices, OBS_VALUE)
    IN  IF text = <<>> THEN 0 ELSE parseFloat(replaceComma(text)).tenths

\* for each source row, the cell it lands in and what it adds to it
PvContributions ==
    LET rows == PvSourceRows
    IN  [i \in 1..Len(rows) |->
            [key |-> PvRowKeyOf(rows[i]),
             column |-> PvColumnOf(rows[i]),
             tenths |-> PvObservation(rows[i])]]

RECURSIVE PvSum(_, _, _)
PvSum(contributions, key, column) ==
    IF contributions = <<>> THEN 0
    ELSE (IF Head(contributions).key = key /\ Head(contributions).column = column
          THEN Head(contributions).tenths ELSE 0)
            + PvSum(Tail(contributions), key, column)

PvWrittenHeader == SplitOn(pv_output[1], ";")

PvWrittenRows ==
    [i \in 1..(Len(pv_output) - 1) |-> SplitOn(pv_output[i + 1], ";")]

PvWrittenKey(row) == <<stripOuterQuotes(row[1]), row[2]>>

PvWrittenDynamicHeaders == SubSeq(PvWrittenHeader, 3, Len(PvWrittenHeader))

\* the column keys in the order in which the source rows first show them
RECURSIVE PvFirstSight(_)
PvFirstSight(contributions) ==
    IF contributions = <<>> THEN <<>>
    ELSE LET before == PvFirstSight(SubSeq(contributions, 1,
                                           Len(contributions) - 1))
             column == contributions[Len(contributions)].column
         IN  IF column \in Range(before) THEN before
             ELSE Append(before, column)

(***************************************************************************)
(* C12.  The dynamic-column segment of the header written by pivotCsv      *)
(* lists every column key discovered in the source exactly once, in        *)
(* strictly ascending lexicographic order, whatever the order in which the *)
(* keys were first seen.                                                   *)
(***************************************************************************)
C12_DynamicHeaderSorted ==
    pv_output # <<>> =>
        LET dyn == PvWrittenDynamicHeaders
            source == PvContributions
        IN  /\ Range(dyn) = {source[s].column : s \in 1..Len(source)}
            /\ \A i \in 1..(Len(dyn) - 1) : LexLess(dyn[i], dyn[i + 1])

\* keys first seen in descending order and written in ascending order
C12_Witness ==
    /\ pv_result = "resolved"
    /\ LET dyn == PvWrittenDynamicHeaders
           seen == PvFirstSight(PvContributions)
       IN  /\ Len(seen) = 2
           /\ LexLess(seen[2], seen[1])
           /\ dyn = <<seen[2], seen[1]>>

(***************************************************************************)
(* C16.  On every completion of pivotCsv, whether it returns a result or   *)
(* throws, the source CSV file at sourceCsvPath has been deleted.          *)
(***************************************************************************)
C16_SourceDeletedOnEveryCompletion ==
    pv_result # "pending" => ~pv_sourceExists

(***************************************************************************)
(* C20.  If the header of the source CSV lacks OBS_VALUE, GEO or           *)
(* TIME_PERIOD, pivotCsv throws before any data row is processed and       *)
(* before the output file is created, so that no output file exists after  *)
(* the failure.                                                            *)
(***************************************************************************)
C20_MissingColumnFailsBeforeOutput ==
    /\ (/\ pv_sourceHeaders # <<>>
        /\ ~({GEO, TIME_PERIOD, OBS_VALUE} \subseteq Range(pv_sourceHeaders)))
          => /\ pv_error = "Missing required columns"
             /\ pv_pc \in {"finally", "done"}
             /\ pv_pc = "done" => pv_result = "rejected"
    /\ pv_error = "Missing required columns"
          => /\ Len(PvNonBlankLines) = 1
             /\ pv_buffer = <<>>
             /\ pv_dynamicHeadersMap = <<>>
             /\ pv_output = <<>>
             /\ ~pv_outputExists

\* the call has failed on a header that has GEO and TIME_PERIOD, not OBS_VALUE
C20_Witness ==
    /\ pv_result = "rejected"
    /\ pv_error = "Missing required columns"
    /\ {GEO, TIME_PERIOD} \subseteq Range(pv_sourceHeaders)
    /\ OBS_VALUE \notin Range(pv_sourceHeaders)
    /\ ~pv_outputExists

\* every data row of the source, with or without a GEO and a TIME_PERIOD
PvAllDataRows ==
    IF PvNonBlankLines = <<>> THEN <<>>
    ELSE [i \in 1..(Len(PvNonBlankLines) - 1) |->
            PivotCols(PvNonBlankLines[i + 1])]

(***************************************************************************)
(* C21.  Every data row is keyed by the join of its GEO and TIME_PERIOD    *)
(* values; a row whose GEO or TIME_PERIOD is empty or missing is keyed     *)
(* with an empty segment and aggregated like any other row, so that the    *)
(* written file has a row of that key.                                     *)
(***************************************************************************)
C21_EmptyKeySegmentsAreAggregated ==
    pv_output # <<>> =>
        LET written == PvWrittenRows
            rows == PvAllDataRows
        IN  \A i \in 1..Len(rows) :
               \E r \in 1..Len(written) :
                  PvWrittenKey(written[r]) = PvRowKeyOf(rows[i])

\* the values a row has for the pivot concepts, in the order of line 243
PvPivotValues(cols) ==
    LET resolved == ResolvedConcepts(pv_pivotConcepts, pv_colIndices)
    IN  [i \in 1..Len(resolved) |-> ColAt(cols, pv_colIndices, resolved[i])]

(***************************************************************************)
(* C22.  Two source rows whose tuples of pivot values differ are never     *)
(* accumulated into the same output column: distinct tuples yield distinct *)
(* synthesized column keys.                                                *)
(***************************************************************************)
C22_DistinctTuplesDistinctKeys ==
    pv_output # <<>> =>
        LET rows == PvSourceRows
        IN  \A i, j \in 1..Len(rows) :
               PvPivotValues(rows[i]) # PvPivotValues(rows[j])
                   => PvColumnOf(rows[i]) # PvColumnOf(rows[j])

\* the pivot concepts that contain age or sex, and the others, each group in
\* the declared order
PvEndConcepts == SelectSeq(pv_pivotConcepts, isEnd)

PvOtherConcepts == SelectSeq(pv_pivotConcepts, LAMBDA c : ~isEnd(c))

\* the concepts that are columns of the source, the others first
PvOrderedColumns ==
    SelectSeq(PvOtherConcepts \o PvEndConcepts,
              LAMBDA c : HasKey(pv_colIndices, c))

PvKeyDue(cols, ordered) ==
    IF ordered = <<>> THEN <<"v", "a", "l", "u", "e">>
    ELSE JoinWith([i \in 1..Len(ordered) |->
                      cleanVal(ColAt(cols, pv_colIndices, ordered[i]))],
                  <<>>)

PvTitleDue(cols, ordered) ==
    IF ordered = <<>> THEN <<"V", "a", "l", "e", "u", "r">>
    ELSE JoinWith([i \in 1..Len(ordered) |->
                      humanLabel(pv_labelsMap, ordered[i],
                                 ColAt(cols, pv_colIndices, ordered[i]))],
                  <<" ", "-", " ">>)

(***************************************************************************)
(* C26.  pivotCsv orders the pivot concepts so that every concept whose    *)
(* name contains age or sex, in any case, comes after every concept that   *)
(* does not, the declared order being kept inside each of the two groups;  *)
(* the segments of the column key and of the title follow this order.      *)
(***************************************************************************)
C26_AgeAndSexConceptsLast ==
    /\ LET sorted == sortedConcepts(pv_pivotConcepts)
       IN  /\ \A i, j \in 1..Len(sorted) :
                 (i < j /\ isEnd(sorted[i])) => isEnd(sorted[j])
           /\ SelectSeq(sorted, isEnd) = PvEndConcepts
           /\ SelectSeq(sorted, LAMBDA c : ~isEnd(c)) = PvOtherConcepts
    /\ pv_output # <<>> =>
          LET rows == PvSourceRows
              ordered == PvOrderedColumns
              due == [i \in 1..Len(rows) |->
                        [k |-> PvKeyDue(rows[i], ordered),
                         v |-> PvTitleDue(rows[i], ordered)]]
              headers == Range(PvWrittenDynamicHeaders)
          IN  /\ \A i \in 1..Len(due) :
                    /\ due[i].k \in headers
                    /\ HasKey(pv_dynamicHeadersMap, due[i].k)
              /\ \A h \in 1..Len(pv_dynamicHeadersMap) :
                    pv_dynamicHeadersMap[h] \in Range(due)

\* SEXE is declared first and its segment comes last in key and title
C26_Witness ==
    /\ pv_result = "resolved"
    /\ pv_pivotConcepts = <<SEXE, TIME_PERIOD, GEO>>
    /\ PvOrderedColumns = <<TIME_PERIOD, GEO, SEXE>>
    /\ \E h \in 1..Len(pv_dynamicHeadersMap) :
          /\ pv_dynamicHeadersMap[h].k = <<"1", "f", "r", "f">>
          /\ pv_dynamicHeadersMap[h].v
                = <<"1", " ", "-", " ", "F", "R", " ", "-", " ",
                    "F", "e", "m", "m", "e">>

(***************************************************************************)
(* C27.  The schema returned by pivotCsv has exactly one descriptor per    *)
(* column of the header written, with the same keys in the same order:     *)
(* first the kept columns, of type string, then one descriptor of type     *)
(* number per dynamic column in sorted order, each with the title          *)
(* registered for its column key.                                          *)
(***************************************************************************)
C27_SchemaMatchesHeader ==
    pv_result = "resolved" =>
        LET header == PvWrittenHeader
        IN  /\ Len(pv_schema) = Len(header)
            /\ \A i \in 1..Len(header) :
                  /\ pv_schema[i].key = header[i]
                  /\ pv_schema[i].type = IF i <= 2 THEN "string" ELSE "number"
                  /\ i > 2 =>
                        /\ HasKey(pv_dynamicHeadersMap, header[i])
                        /\ pv_schema[i].title
                              = GetKey(pv_dynamicHeadersMap, header[i])
            /\ \A i, j \in 1..Len(pv_schema) :
                  pv_schema[i].key = pv_schema[j].key => i = j
            /\ \A i \in 3..(Len(pv_schema) - 1) :
                  LexLess(pv_schema[i].key, pv_schema[i + 1].key)

\* two dynamic columns, seen in descending order, one with a label as title
C27_Witness ==
    /\ pv_result = "resolved"
    /\ Len(pv_schema) = 4
    /\ Len(pv_dynamicHeadersMap) = 2
    /\ pv_dynamicHeadersMap[1].k = pv_schema[4].key
    /\ pv_schema[3].key = <<"f">>
    /\ pv_schema[3].title = <<"F", "e", "m", "m", "e">>

\* the literal of line 257
PvValueKey == <<"v", "a", "l", "u", "e">>

\* the row object the buffer holds for the row key of a source row
PvRowObjectOf(cols) ==
    GetKey(pv_buffer, rowKey(ColAt(cols, pv_colIndices, GEO),
                             ColAt(cols, pv_colIndices, TIME_PERIOD)))

\* each tuple of pivot values has one column key, which the row object of
\* every row of that tuple holds, and these keys are all the column keys
PvOneKeyPerTuple ==
    LET rows == PvSourceRows
        tuples == {PvPivotValues(rows[i]) : i \in 1..Len(rows)}
        keys == Keys(pv_dynamicHeadersMap)
    IN  \E g \in [tuples -> keys] :
           /\ \A i \in 1..Len(rows) :
                 HasKey(PvRowObjectOf(rows[i]), g[PvPivotValues(rows[i])])
           /\ {g[t] : t \in tuples} = keys

PvNoConceptResolves ==
    ResolvedConcepts(pv_pivotConcepts, pv_colIndices) = <<>>

(***************************************************************************)
(* C28, as stated.  Two rows with identical values for the pivot concepts  *)
(* get the identical column key wherever they stand in the source, and the *)
(* key is the literal value exactly when no pivot concept resolves to a    *)
(* column of the header.                                                   *)
(***************************************************************************)
C28_ValueKeyExactlyWhenNothingResolves ==
    (pv_error = "none" /\ pv_buffer # <<>>) =>
        /\ PvOneKeyPerTuple
        /\ PvValueKey \in Keys(pv_dynamicHeadersMap) <=> PvNoConceptResolves

(***************************************************************************)
(* C28, amended.  Two rows with identical values for the pivot concepts    *)
(* get the identical column key wherever they stand in the source; when no *)
(* pivot concept resolves to a column of the header the key of every row   *)
(* is the literal value.                                                   *)
(***************************************************************************)
C28_SameValuesSameKey ==
    (pv_error = "none" /\ pv_buffer # <<>>) =>
        /\ PvOneKeyPerTuple
        /\ PvNoConceptResolves => Keys(pv_dynamicHeadersMap) = {PvValueKey}

\* pivot concepts are given, none is a column, and two rows share the key
C28_Witness ==
    /\ pv_result = "resolved"
    /\ pv_pivotConcepts # <<>>
    /\ PvNoConceptResolves
    /\ Len(PvSourceRows) = 2
    /\ Keys(pv_dynamicHeadersMap) = {PvValueKey}
(***************************************************************************)
(* Specifications.                                                         *)
(***************************************************************************)
InitBuildParams == BpInit /\ SpIdle /\ GrIdle /\ DlIdle /\ ExIdle /\ PvIdle /\ SeIdle

NextBuildParams == BuildImportParams

SpecBuildParams == InitBuildParams /\ [][NextBuildParams]_vars

InitSerialize == SpInit /\ BpIdle /\ GrIdle /\ DlIdle /\ ExIdle /\ PvIdle /\ SeIdle

NextSerialize == SerializeParams

SpecSerialize == InitSerialize /\ [][NextSerialize]_vars

InitResource == GrInit /\ BpIdle /\ SpIdle /\ DlIdle /\ ExIdle /\ PvIdle /\ SeIdle

NextResource ==
    \/ GetMetaData
    \/ CountPagging
    \/ SelectFetchPath
    \/ DownloadResourceCsv
    \/ DownloadResourceZip
    \/ RangeRequest
    \/ PivotStep
    \/ SchemaStep

SpecResource == InitResource /\ [][NextResource]_vars

InitDownload == DlInit /\ BpIdle /\ SpIdle /\ GrIdle /\ ExIdle /\ PvIdle /\ SeIdle

NextDownload ==
    \/ CallDownload
    \/ WriterOpenCreatesFile
    \/ WriterOpened
    \/ WriterOpenFails
    \/ AxiosGetResolves
    \/ AxiosGetRejects
    \/ LogTaskResolves
    \/ OnData
    \/ ResponseEnd
    \/ ResponseError
    \/ WriterFlush
    \/ WriterWriteFails
    \/ OnFinish
    \/ FinishResolve
    \/ UnlinkAsync
    \/ AwaitInnerPromise
    \/ CatchBlock
    \/ CatchUnlinkSync

SpecDownload == InitDownload /\ [][NextDownload]_vars

InitExtract == ExInit /\ BpIdle /\ SpIdle /\ GrIdle /\ DlIdle /\ PvIdle /\ SeIdle

NextExtract ==
    \/ ExOpenArchive
    \/ ExReadLine
    \/ ExStreamError
    \/ ExWriteError
    \/ ExEndOfInput
    \/ ExCatch

SpecExtract == InitExtract /\ [][NextExtract]_vars

InitPivot == PvInit /\ BpIdle /\ SpIdle /\ GrIdle /\ DlIdle /\ ExIdle /\ SeIdle

NextPivot ==
    \/ PvStart
    \/ PvReadLine
    \/ PvReadError
    \/ PvWriteOutput
    \/ PvWriteError
    \/ PvReturn
    \/ PvFinally

SpecPivot == InitPivot /\ [][NextPivot]_vars

InitSelect ==
    SeInit /\ BpIdle /\ SpIdle /\ GrIdle /\ DlIdle /\ ExIdle /\ PvIdle

NextSelect ==
    \/ SelectLargestEntry
    \/ ExtractZipAndSelect

SpecSelect == InitSelect /\ [][NextSelect]_vars

=============================================================================
